---- MODULE Spec2Model ----
(***************************************************************************)
(* A model of the signal-to-execution pipeline of the MT5 trading bot:     *)
(* the risk manager (src/risk_manager.py), the strategies' cooldown clock  *)
(* (src/strategies/), the single-strategy scheduler (src/main.py) and the  *)
(* multi-strategy schedulers (src/multi_strategy_bot.py,                   *)
(* src/production_multi_strategy.py, src/mac_version/).                    *)
(*                                                                         *)
(* Numbers.  Python floats are modelled as exact rationals <<n, d>> with   *)
(* d > 0 in lowest terms; round() is Python's round-half-to-even.  A       *)
(* double differs from the exact value by a rounding error far below every *)
(* quantity compared here, so the error decides an outcome only where the  *)
(* exact operands of a comparison are equal or the exact argument of       *)
(* round() lies half way; there the sign of the error is an input of the   *)
(* operation (RoundingErrors).                                             *)
(*                                                                         *)
(* Time.  The wall clock of the single-strategy scheduler, whose loop      *)
(* sleeps a second, counts whole seconds; that of the multi-strategy       *)
(* schedulers, whose loops sleep fractions of a second, counts tenths of a *)
(* second.                                                                 *)
(***************************************************************************)
EXTENDS Integers, Sequences, FiniteSets, TLC

VARIABLES
    positions,            \* venue: open positions, ticket -> position record
    nextTicket,           \* venue: the ticket the next accepted order gets
    account,              \* venue: the account snapshot get_account_info() answers with
    price,                \* venue: current market price of the symbol (price_current)
    now,                  \* wall clock: seconds, in the multi-strategy loops tenths of a second
    ticks,                \* loop iterations started so far
    bot,                  \* which scheduler runs: "single", "multi", "production", "mac"
    running,              \* TradingBot.running / MultiStrategyTradingBot.running
    pc,                   \* position of the scheduler inside its loop body
    window,               \* the bar window fetched by this tick
    last_signal_time,     \* strategy name -> BaseStrategy.last_signal_time
    max_drawdown_reached, \* RiskManager.max_drawdown_reached
    obs,                  \* what the last handler call was given and what it answered
    hist                  \* history of the session (what earlier calls answered)

vars == <<positions, nextTicket, account, price, now, ticks, bot, running, pc, window,
          last_signal_time, max_drawdown_reached, obs, hist>>

venueVars == <<positions, nextTicket, account, price>>
clockVars == <<now, ticks>>
loopVars  == <<bot, running, pc, window>>

-----------------------------------------------------------------------------
(* Exact rational arithmetic standing for Python float arithmetic.  An     *)
(* operand read more than once is bound to the one element of a set, which *)
(* evaluates it once.                                                      *)

Abs(n) == IF n < 0 THEN -n ELSE n

RECURSIVE GCD(_, _)
GCD(a, b) == CHOOSE g \in {IF y = 0 THEN x ELSE GCD(y, x % y) : x \in {a}, y \in {b}} : TRUE

\* n/d in lowest terms with a positive denominator (d # 0)
Rat(n, d) ==
    CHOOSE q \in UNION {{<<(s * x) \div g, (s * y) \div g>> :
                            g \in {GCD(Abs(x), Abs(y))}, s \in {IF y < 0 THEN -1 ELSE 1}} :
                          x \in {n}, y \in {d}} : TRUE

RR(n)      == <<n, 1>>
Zero       == <<0, 1>>
RAdd(a, b) == CHOOSE q \in {Rat(x[1] * y[2] + y[1] * x[2], x[2] * y[2]) : x \in {a}, y \in {b}} : TRUE
RSub(a, b) == CHOOSE q \in {Rat(x[1] * y[2] - y[1] * x[2], x[2] * y[2]) : x \in {a}, y \in {b}} : TRUE
RMul(a, b) ==
    CHOOSE q \in UNION {{Rat((x[1] \div g) * (y[1] \div h), (x[2] \div h) * (y[2] \div g)) :
                            g \in {GCD(Abs(x[1]), y[2])}, h \in {GCD(Abs(y[1]), x[2])}} :
                          x \in {a}, y \in {b}} : TRUE
RDiv(a, b) == CHOOSE q \in {Rat(x[1] * y[2], x[2] * y[1]) : x \in {a}, y \in {b}} : TRUE  \* b # Zero
RAbs(a)    == CHOOSE q \in {<<Abs(x[1]), x[2]>> : x \in {a}} : TRUE
RLt(a, b)  == \E x \in {a}, y \in {b} : x[1] * y[2] < y[1] * x[2]
RLe(a, b)  == \E x \in {a}, y \in {b} : x[1] * y[2] <= y[1] * x[2]
RMin(a, b) == CHOOSE q \in {IF RLt(y, x) THEN y ELSE x : x \in {a}, y \in {b}} : TRUE  \* Python min(a, b)
RMax(a, b) == CHOOSE q \in {IF RLt(x, y) THEN y ELSE x : x \in {a}, y \in {b}} : TRUE  \* Python max(a, b)
RIsInt(a)  == a[2] = 1

\* Python round(x) of a float: to the nearest integer, ties to the even one
PyRound(a) ==
    CHOOSE n \in UNION {{IF 2 * r < x[2] THEN q
                         ELSE IF 2 * r > x[2] THEN q + 1
                         ELSE IF q % 2 = 0 THEN q ELSE q + 1 :
                            q \in {x[1] \div x[2]},       \* floor, as x[2] > 0
                            r \in {x[1] % x[2]}} :
                          x \in {a}} : TRUE

\* the sign of the rounding error of a computed double: the double lies
\* below the exact value, on it, or above it
RoundingErrors == {-1, 0, 1}

\* a < b between doubles whose exact values are a and b, the double of a
\* lying off the double of b to the side err
FLt(a, b, err) == \E x \in {a}, y \in {b} : RLt(x, y) \/ (x = y /\ err < 0)
FLe(a, b, err) == \E x \in {a}, y \in {b} : RLt(x, y) \/ (x = y /\ err <= 0)

\* round(x) of the double computed for the exact value a with error err: a
\* double off a half rounds to the side it lies on
RoundDouble(a, err) ==
    CHOOSE n \in {IF 2 * (x[1] % x[2]) = x[2] /\ err # 0
                  THEN (x[1] \div x[2]) + (IF err > 0 THEN 1 ELSE 0)
                  ELSE PyRound(x) : x \in {a}} : TRUE

-----------------------------------------------------------------------------
(* Configuration (src/config.py) and values the venue connector answers.   *)

\* RISK_SETTINGS
risk_per_trade         == <<1, 100>>
max_daily_loss         == <<5, 100>>
max_drawdown           == <<10, 100>>
trailing_stop          == TRUE
trailing_stop_distance == 3
\* RISK_SETTINGS has no 'max_positions' key: .get('max_positions', 5)
max_positions          == 5
\* symbol_info has no 'stops_level' key: .get('stops_level', 10)
stops_level            == 10

\* what a connector call answers when it has no data (Python None)
NoInfo == [none |-> TRUE]
\* BaseStrategy.last_signal_time before any signal was recorded (Python None)
NoneTime == -1

-----------------------------------------------------------------------------
(* RiskManager (src/risk_manager.py).  account_info and symbol_info are    *)
(* the dictionaries of MT5Connector.get_account_info / get_symbol_info,    *)
(* or NoInfo; positions_list is what get_positions() answered:             *)
(* [list |-> the open positions, ticket -> record], or NoInfo.             *)

\* _check_daily_loss_limit: abs(min(0, profit)) >= balance * max_daily_loss
_check_daily_loss_limit(account_info) ==
    LET max_loss     == RMul(RR(account_info.balance), max_daily_loss)
        current_loss == RAbs(RMin(Zero, RR(account_info.profit)))
    IN  RLe(max_loss, current_loss)

\* _check_max_drawdown: balance - equity >= balance * max_drawdown
_check_max_drawdown(account_info) ==
    LET limit            == RMul(RR(account_info.balance), max_drawdown)
        current_drawdown == RR(account_info.balance - account_info.equity)
    IN  RLe(limit, current_drawdown)

\* a gate that lets every entry through
GateAlwaysOpen(account_info, positions_list, flag) ==
    [allowed |-> TRUE, why |-> "ok", flag |-> flag]

\* the position-cap test of check_trading_allowed: "positions and len(positions) >= cap"
PositionCapReached(positions_list) ==
    /\ positions_list # NoInfo
    /\ DOMAIN positions_list.list # {}
    /\ Cardinality(DOMAIN positions_list.list) >= max_positions

\* check_trading_allowed: the answer, the check that decided it, and the
\* value of self.max_drawdown_reached afterwards
check_trading_allowed(account_info, positions_list, flag) ==
    IF account_info = NoInfo
      THEN [allowed |-> FALSE, why |-> "no_account_info", flag |-> flag]
    ELSE IF PositionCapReached(positions_list)
      THEN [allowed |-> FALSE, why |-> "max_positions", flag |-> flag]
    ELSE IF _check_daily_loss_limit(account_info)
      THEN [allowed |-> FALSE, why |-> "daily_loss", flag |-> flag]
    ELSE IF _check_max_drawdown(account_info)
      THEN [allowed |-> FALSE, why |-> "max_drawdown", flag |-> TRUE]
    ELSE IF ~account_info.trade_allowed
      THEN [allowed |-> FALSE, why |-> "trade_not_allowed", flag |-> flag]
    ELSE [allowed |-> TRUE, why |-> "ok", flag |-> flag]

\* _apply_additional_risk_limits: the free-margin cap and the risk-multiple
\* cap; a ZeroDivisionError inside it answers the size it was given
_apply_additional_risk_limits(position_size, account_info, symbol_info) ==
    IF account_info.leverage = 0 \/ symbol_info.contract_size = 0
    THEN position_size
    ELSE
    LET free_margin     == RR(account_info.free_margin)
        leverage        == RR(account_info.leverage)
        contract        == RR(symbol_info.contract_size)
        half            == RMul(free_margin, <<1, 2>>)
        required_margin == RDiv(RMul(position_size, contract), leverage)
        max_position    == RDiv(RMul(half, leverage), contract)
        by_margin       == IF RLt(half, required_margin)
                           THEN RMin(position_size, max_position)
                           ELSE position_size
        max_risk_amount == RMul(RR(account_info.balance), risk_per_trade)
        max_lots_value  == RDiv(RMul(max_risk_amount, RR(10)), contract)
    IN  RMin(by_margin, max_lots_value)

\* the outcome of a computation: its value, or the exception it raised
Computed(value)   == [raised |-> FALSE, value |-> value]
ZeroDivisionError == [raised |-> TRUE, value |-> Zero]

\* a size that takes the contract size for the value of a pip
SizePerPip(is_jpy, entry_price, stop_loss_price, account_info, symbol_info) ==
    LET risk_amount == RMul(RR(account_info.balance), risk_per_trade)
        pip_size    == IF is_jpy THEN RMul(symbol_info.point, RR(100))
                       ELSE symbol_info.point
    IN  IF pip_size = Zero \/ entry_price = stop_loss_price THEN ZeroDivisionError
        ELSE Computed(RDiv(risk_amount,
                           RMul(RDiv(RAbs(RSub(entry_price, stop_loss_price)), pip_size),
                                RR(symbol_info.contract_size))))

\* the size before rounding: risk_amount / (stop_loss_pips * pip_value), with
\* risk_amount left to its default
raw_position_size(is_jpy, entry_price, stop_loss_price, account_info, symbol_info) ==
    LET risk_amount == RMul(RR(account_info.balance), risk_per_trade)
        pip_size    == IF is_jpy THEN RMul(symbol_info.point, RR(100))
                       ELSE symbol_info.point
    IN  IF pip_size = Zero THEN ZeroDivisionError
        ELSE
        LET stop_loss_pips == RDiv(RAbs(RSub(entry_price, stop_loss_price)), pip_size)
            pip_value      == RMul(RR(symbol_info.contract_size), pip_size)
            divisor        == RMul(stop_loss_pips, pip_value)
        IN  IF divisor = Zero THEN ZeroDivisionError
            ELSE Computed(RDiv(risk_amount, divisor))

\* calculate_position_size with risk_amount left to its default; every
\* exception (a division by zero) answers 0.0.  err: the rounding error of
\* position_size / lot_step, the argument of round()
calculate_position_size(is_jpy, entry_price, stop_loss_price, account_info, symbol_info, err) ==
    IF account_info = NoInfo \/ symbol_info = NoInfo THEN Zero
    ELSE
    LET raw      == raw_position_size(is_jpy, entry_price, stop_loss_price,
                                      account_info, symbol_info)
        lot_step == symbol_info.lot_step
    IN  IF raw.raised \/ lot_step = Zero THEN Zero
        ELSE
        LET stepped == RMul(RR(RoundDouble(RDiv(raw.value, lot_step), err)), lot_step)
            clamped == RMax(symbol_info.minimum_lot,
                            RMin(symbol_info.maximum_lot, stepped))
        IN  _apply_additional_risk_limits(clamped, account_info, symbol_info)

\* _validate_sl_tp_distance: actual_distance >= min_distance.  err: the
\* rounding error of actual_distance against min_distance
_validate_sl_tp_distance(symbol_info, entry_price, sl_tp_price, err) ==
    /\ symbol_info # NoInfo
    /\ ~FLt(RAbs(RSub(entry_price, sl_tp_price)),
            RMul(RR(stops_level), symbol_info.point), err)

\* a margin check that finds every volume covered
MarginAlwaysSufficient(account_info, symbol_info, volume, err) == TRUE

\* _check_margin_requirements: "sufficient", available_margin >=
\* required_margin.  err: the rounding error of required_margin
_check_margin_requirements(account_info, symbol_info, volume, err) ==
    /\ account_info # NoInfo
    /\ symbol_info # NoInfo
    /\ account_info.leverage # 0
    /\ FLe(RDiv(RMul(volume, RR(symbol_info.contract_size)), RR(account_info.leverage)),
           RR(account_info.free_margin), err)

\* round(volume / lot_step) * lot_step of validate_trade.  err: the rounding
\* error of the computation
SteppedVolume(volume, symbol_info, err) ==
    RMul(RR(RoundDouble(RDiv(volume, symbol_info.lot_step), err)), symbol_info.lot_step)

\* "stepped_volume != volume": the two differ, or the double of the product
\* missed the volume it was computed from
OffStep(volume, symbol_info, err) ==
    SteppedVolume(volume, symbol_info, err) # volume \/ err # 0

\* the volume adjustment of validate_trade (lines 164-175): the clamp to
\* [min_lot, max_lot], then the re-step, which is computed from the volume
\* asked for and overwrites the clamp when it differs from it
AdjustVolume(volume, symbol_info, err) ==
    LET min_lot  == symbol_info.minimum_lot
        max_lot  == symbol_info.maximum_lot
        lot_step == symbol_info.lot_step
        clamped  == IF RLt(volume, min_lot) THEN min_lot
                    ELSE IF RLt(max_lot, volume) THEN max_lot
                    ELSE volume
    IN  IF OffStep(volume, symbol_info, err)
        THEN SteppedVolume(volume, symbol_info, err) ELSE clamped

\* the rounding errors of one call of validate_trade: of the stepped
\* volume, of the two distances and of the required margin
ValidationErrors == [step : RoundingErrors, sl : RoundingErrors,
                     tp : RoundingErrors, margin : RoundingErrors]
ExactValidation  == [step |-> 0, sl |-> 0, tp |-> 0, margin |-> 0]

\* the warnings of validate_trade, in the order they are appended
ValidateWarnings(volume, entry_price, stop_loss, take_profit, symbol_info, errs) ==
    (IF RLt(volume, symbol_info.minimum_lot) THEN <<"volume_to_minimum">>
     ELSE IF RLt(symbol_info.maximum_lot, volume) THEN <<"volume_to_maximum">>
     ELSE <<>>)
    \o (IF OffStep(volume, symbol_info, errs.step) THEN <<"volume_to_lot_step">> ELSE <<>>)
    \o (IF stop_loss # Zero /\ entry_price # Zero
           /\ ~_validate_sl_tp_distance(symbol_info, entry_price, stop_loss, errs.sl)
        THEN <<"sl_too_close">> ELSE <<>>)
    \o (IF take_profit # Zero /\ entry_price # Zero
           /\ ~_validate_sl_tp_distance(symbol_info, entry_price, take_profit, errs.tp)
        THEN <<"tp_too_close">> ELSE <<>>)

\* validate_trade; allowed is what its call of check_trading_allowed() answered
validate_trade(volume, entry_price, stop_loss, take_profit, allowed, account_info, symbol_info, errs) ==
    IF ~allowed
      THEN [valid |-> FALSE, errors |-> <<"trading_not_allowed">>,
            warnings |-> <<>>, adjusted_volume |-> volume]
    ELSE IF symbol_info = NoInfo
      THEN [valid |-> FALSE, errors |-> <<"invalid_symbol">>,
            warnings |-> <<>>, adjusted_volume |-> volume]
    ELSE IF ~symbol_info.trade_allowed
      THEN [valid |-> FALSE, errors |-> <<"symbol_not_tradeable">>,
            warnings |-> <<>>, adjusted_volume |-> volume]
    ELSE IF symbol_info.lot_step = Zero      \* ZeroDivisionError at line 172
      THEN [valid |-> FALSE, errors |-> <<"validation_error">>,
            warnings |-> (IF RLt(volume, symbol_info.minimum_lot) THEN <<"volume_to_minimum">>
                          ELSE IF RLt(symbol_info.maximum_lot, volume) THEN <<"volume_to_maximum">>
                          ELSE <<>>),
            adjusted_volume |-> (IF RLt(volume, symbol_info.minimum_lot) THEN symbol_info.minimum_lot
                                 ELSE IF RLt(symbol_info.maximum_lot, volume) THEN symbol_info.maximum_lot
                                 ELSE volume)]
    ELSE
      LET adjusted   == AdjustVolume(volume, symbol_info, errs.step)
          sufficient == _check_margin_requirements(account_info, symbol_info, adjusted,
                                                   errs.margin)
      IN  [valid    |-> sufficient,
           errors   |-> IF sufficient THEN <<>> ELSE <<"insufficient_margin">>,
           warnings |-> ValidateWarnings(volume, entry_price, stop_loss, take_profit,
                                         symbol_info, errs),
           adjusted_volume |-> adjusted]

\* The rounding errors that decide an outcome: every sign where the exact
\* operands tie; elsewhere the double decides as the exact value does, and
\* the error is left at 0.
Deciding(tie) == IF tie THEN RoundingErrors ELSE {0}

IsHalfway(a) == 2 * (a[1] % a[2]) = a[2]

\* the deciding errors of calculate_position_size on these arguments
SizeRoundings(is_jpy, entry_price, stop_loss_price, account_info, symbol_info) ==
    IF account_info = NoInfo \/ symbol_info = NoInfo THEN {0}
    ELSE LET raw == raw_position_size(is_jpy, entry_price, stop_loss_price,
                                      account_info, symbol_info)
         IN  IF raw.raised \/ symbol_info.lot_step = Zero THEN {0}
             ELSE Deciding(IsHalfway(RDiv(raw.value, symbol_info.lot_step)))

\* the deciding errors of validate_trade on these arguments
ValidationRoundings(volume, entry_price, stop_loss, take_profit, account_info, symbol_info) ==
    IF account_info = NoInfo \/ symbol_info = NoInfo THEN {ExactValidation}
    ELSE IF symbol_info.lot_step = Zero \/ account_info.leverage = 0 THEN {ExactValidation}
    ELSE
    LET steps        == RDiv(volume, symbol_info.lot_step)
        min_distance == RMul(RR(stops_level), symbol_info.point)
        required(v)  == RDiv(RMul(v, RR(symbol_info.contract_size)),
                             RR(account_info.leverage))
    IN  UNION { [step   : {e},
                 sl     : Deciding(RAbs(RSub(entry_price, stop_loss)) = min_distance),
                 tp     : Deciding(RAbs(RSub(entry_price, take_profit)) = min_distance),
                 margin : Deciding(required(AdjustVolume(volume, symbol_info, e))
                                      = RR(account_info.free_margin))] :
                e \in Deciding(RIsInt(steps) \/ IsHalfway(steps)) }

\* a volume the venue can trade: a multiple of the lot step within the lot bounds
IsLotMultiple(volume, symbol_info) ==
    RIsInt(RDiv(volume, symbol_info.lot_step))
InLotBounds(volume, symbol_info) ==
    /\ RLe(symbol_info.minimum_lot, volume)
    /\ RLe(volume, symbol_info.maximum_lot)

\* the candidate stop of _update_position_trailing_stop: trailing_distance
\* pips behind the current price (below it for BUY, above it for SELL)
TrailingCandidate(position_type, current_price, symbol_info, is_jpy) ==
    LET pip_size == IF is_jpy THEN RMul(symbol_info.point, RR(100)) ELSE symbol_info.point
        distance == RMul(RR(trailing_stop_distance), pip_size)
    IN  IF position_type = "BUY" THEN RSub(current_price, distance)
        ELSE RAdd(current_price, distance)

\* a mutant of StopImproves: the SELL comparison used for both directions
StopImprovesSellOnly(position_type, current_sl, new_sl, err) ==
    current_sl = Zero \/ FLt(new_sl, current_sl, err)

\* "current_sl == 0 or new_sl > current_sl" (BUY), "... new_sl < current_sl"
\* (SELL).  err: the rounding error of new_sl
StopImproves(position_type, current_sl, new_sl, err) ==
    \/ current_sl = Zero
    \/ IF position_type = "BUY" THEN FLt(current_sl, new_sl, -err)
       ELSE FLt(new_sl, current_sl, err)

\* _update_position_trailing_stop: whether modify_position is called, and
\* with which stop.  current_price: position['price_current']; symbol_info:
\* what get_symbol_info(position['symbol']) answers; err: the rounding error
\* of new_sl
_update_position_trailing_stop(position, current_price, symbol_info, is_jpy, err) ==
    IF symbol_info = NoInfo THEN [send |-> FALSE, new_sl |-> Zero, err |-> 0]
    ELSE LET new_sl == TrailingCandidate(position.type, current_price, symbol_info, is_jpy)
         IN  [send   |-> StopImproves(position.type, position.sl, new_sl, err),
              new_sl |-> new_sl, err |-> err]

\* what a pass reads for one position: its 'price_current', the answer of
\* get_symbol_info() for its symbol, whether the symbol ends with "JPY",
\* and the rounding error of the candidate computed from them
PositionQuote(price_current, symbol_info, is_jpy, err) ==
    [price_current |-> price_current, symbol_info |-> symbol_info,
     is_jpy |-> is_jpy, err |-> err]

\* 'price_current' of the positions of one symbol: the bid for a BUY, the
\* ask for a SELL
PriceCurrent(pos, bid, ask) ==
    [t \in DOMAIN pos |-> IF pos[t].type = "BUY" THEN bid ELSE ask]

\* the sides with a position whose exact candidate equals the stop in
\* place: there the rounding error decides the comparison.  The positions
\* of a side share their 'price_current', and so the double of their
\* candidate
TiedStops(pos, price_current, symbol_info) ==
    IF symbol_info = NoInfo THEN {}
    ELSE {pos[t].type : t \in
            {u \in DOMAIN pos :
               pos[u].sl = TrailingCandidate(pos[u].type, price_current[u],
                                             symbol_info, FALSE)}}

\* the quotes of a pass over positions of one symbol that is not a JPY
\* pair; errs: the rounding error of the candidate of the tied sides
Quotes(pos, price_current, symbol_info, errs) ==
    [t \in DOMAIN pos |->
        PositionQuote(price_current[t], symbol_info, FALSE,
                      IF pos[t].type \in DOMAIN errs THEN errs[pos[t].type] ELSE 0)]

\* update_trailing_stops over the open positions; quote: per ticket, what
\* the pass reads for the position; accepted: the tickets whose
\* modification the venue answers with TRADE_RETCODE_DONE.  The answer is,
\* per ticket, what the pass saw, asked for (new_sl with the rounding error
\* err of the stop of a request) and left behind.
update_trailing_stops(pos, quote, accepted) ==
    [t \in DOMAIN pos |->
        \* u: the one call of _update_position_trailing_stop for the position
        CHOOSE entry \in
            {LET done == trailing_stop /\ u.send /\ t \in accepted
             IN  [type       |-> pos[t].type,
                  current_sl |-> pos[t].sl,
                  new_sl     |-> u.new_sl,
                  err        |-> IF u.send THEN u.err ELSE 0,
                  sent       |-> trailing_stop /\ u.send,
                  tp_sent    |-> pos[t].tp,
                  sl_after   |-> IF done THEN u.new_sl ELSE pos[t].sl] :
               u \in {_update_position_trailing_stop(pos[t], quote[t].price_current,
                                                     quote[t].symbol_info, quote[t].is_jpy,
                                                     quote[t].err)}} : TRUE]

-----------------------------------------------------------------------------
(* strategies: get_signal and the cooldown clocks.  A window of bars is    *)
(* kept as the time stamp of its last bar and what its closing prices show *)
(* to the strategy asked: "up" (the BUY condition of the variant holds),   *)
(* "down" (the SELL condition holds) or "flat" (neither, or a filter hit). *)

\* BaseStrategy._is_signal_too_recent(min_interval_minutes = 5), in seconds
min_interval_seconds == 5 * 60

\* the strategies of MultiStrategyTradingBot.initialize_strategies modelled
\* here and the signal_cooldown each is configured with
StrategyNames == {"ema_crossover", "aggressive_scalp", "hft_ema"}

signal_cooldown(name) ==
    CASE name = "ema_crossover"     -> 10
      [] name = "aggressive_scalp"  -> 2
      [] name = "momentum_breakout" -> 5
      [] name = "mean_reversion"    -> 8
      [] name = "hft_ema"           -> 1

\* last_signal_time as the constructors leave it
InitialSignalTime(name) ==
    IF name \in {"ema_crossover", "simple_ema"} THEN NoneTime ELSE 0

_is_signal_too_recent(last, current_time) ==
    IF last = NoneTime THEN FALSE ELSE current_time - last < min_interval_seconds

validate_signal(signal, last, current_time) ==
    /\ signal \in {"BUY", "SELL"}
    /\ ~_is_signal_too_recent(last, current_time)

CrossSignal(w) ==
    CASE w.cross = "up" -> "BUY" [] w.cross = "down" -> "SELL" [] OTHER -> "None"

\* EMACrossoverStrategy.get_signal: the answer and last_signal_time after the call
EMACrossover_get_signal(w, last, current_time) ==
    LET signal == CrossSignal(w)
    IN  [signal |-> IF signal # "None" /\ validate_signal(signal, last, current_time)
                    THEN signal ELSE "None",
         last_signal_time |-> last]

\* a variant that answers its signal and leaves its clock as it was
AnswersWithoutStamp(w, last, current_time, cooldown) ==
    IF current_time - last < cooldown THEN [signal |-> "None", last_signal_time |-> last]
    ELSE [signal |-> CrossSignal(w), last_signal_time |-> last]

\* get_signal of the variants that keep their own clock (AggressiveScalpStrategy
\* reads time.time(), HFTEMAScalper the time stamp of the last bar)
SelfClocked_get_signal(w, last, current_time, cooldown) ==
    IF current_time - last < cooldown THEN [signal |-> "None", last_signal_time |-> last]
    ELSE LET signal == CrossSignal(w)
         IN  [signal |-> signal,
              last_signal_time |-> IF signal # "None" THEN current_time ELSE last]

\* SimpleEMAStrategy.get_signal (mac_version): its own _is_signal_too_recent,
\* against the configured cooldown, and _record_signal when it answers
SimpleEMA_get_signal(w, last, current_time, cooldown) ==
    IF last # NoneTime /\ current_time - last < cooldown
    THEN [signal |-> "None", last_signal_time |-> last]
    ELSE LET signal == CrossSignal(w)
         IN  [signal |-> signal,
              last_signal_time |-> IF signal # "None" THEN current_time ELSE last]

\* get_signal of the named strategy, built with signal_cooldown = cooldown
get_signal(name, cooldown, w, last, wall_time) ==
    CASE name = "ema_crossover" -> EMACrossover_get_signal(w, last, wall_time)
      [] name = "simple_ema"    -> SimpleEMA_get_signal(w, last, wall_time, cooldown)
      [] name = "hft_ema"       -> SelfClocked_get_signal(w, last, w.bar_time, cooldown)
      [] OTHER                  -> SelfClocked_get_signal(w, last, wall_time, cooldown)

\* BaseStrategy.update_signal_history: last_signal_time = datetime.now()
update_signal_history(wall_time) == wall_time

Window(bar_time, cross) == [bar_time |-> bar_time, cross |-> cross]

\* a position as get_positions() lists it (the fields used here)
Position(type, sl, tp, volume, comment) ==
    [type |-> type, sl |-> sl, tp |-> tp, volume |-> volume, comment |-> comment]

\* EMACrossoverStrategy: stops from the ATR of the window, rounded to 5 places
stop_loss_atr_multiplier   == <<3, 2>>
take_profit_atr_multiplier == <<5, 2>>

\* round(x, 5) of the double computed for the exact value x with error err:
\* where x lies half way between two fifth decimals the double decides
Round5(x, err) == Rat(RoundDouble(RMul(x, RR(100000)), err), 100000)

\* the deciding errors of round(x, 5)
Round5Roundings(x) == Deciding(IsHalfway(RMul(x, RR(100000))))

\* a float that is NaN, and a float that is a number
NaN == [isna |-> TRUE, value |-> Zero]
Number(value) == [isna |-> FALSE, value |-> value]

\* _get_percentage_stop_loss / _get_percentage_take_profit
_get_percentage_stop_loss(entry_price, signal, percentage) ==
    IF signal = "BUY" THEN RMul(entry_price, RSub(RR(1), percentage))
    ELSE RMul(entry_price, RAdd(RR(1), percentage))

_get_percentage_take_profit(entry_price, signal, percentage) ==
    IF signal = "BUY" THEN RMul(entry_price, RAdd(RR(1), percentage))
    ELSE RMul(entry_price, RSub(RR(1), percentage))

\* the test the stops make on the ATR before they use it
OnlyNaNIsDegenerate(current_atr) == current_atr.isna
Degenerate(current_atr) == current_atr.isna \/ current_atr.value = Zero

\* the percentages of the fallback of EMACrossoverStrategy
stop_loss_percentage   == <<1, 1000>>
take_profit_percentage == <<2, 1000>>

\* EMACrossoverStrategy.get_stop_loss / get_take_profit; current_atr: the
\* last value of the ATR of the window, NaN while the window is shorter
\* than atr_period
\* entry_price -/+ current_atr * atr_multiplier, the price the stops round
atr_based_sl(signal, entry_price, current_atr, atr_multiplier) ==
    LET d == RMul(current_atr, atr_multiplier)
    IN  IF signal = "BUY" THEN RSub(entry_price, d) ELSE RAdd(entry_price, d)

atr_based_tp(signal, entry_price, current_atr, atr_multiplier) ==
    LET d == RMul(current_atr, atr_multiplier)
    IN  IF signal = "BUY" THEN RAdd(entry_price, d) ELSE RSub(entry_price, d)

\* err: the rounding error of the price handed to round(, 5)
get_stop_loss(signal, entry_price, current_atr, err) ==
    IF Degenerate(current_atr)
    THEN _get_percentage_stop_loss(entry_price, signal, stop_loss_percentage)
    ELSE Round5(atr_based_sl(signal, entry_price, current_atr.value,
                             stop_loss_atr_multiplier), err)

get_take_profit(signal, entry_price, current_atr, err) ==
    IF Degenerate(current_atr)
    THEN _get_percentage_take_profit(entry_price, signal, take_profit_percentage)
    ELSE Round5(atr_based_tp(signal, entry_price, current_atr.value,
                             take_profit_atr_multiplier), err)

\* the deciding errors of get_stop_loss and of get_take_profit
StopLossRoundings(signal, entry_price, current_atr) ==
    IF Degenerate(current_atr) THEN {0}
    ELSE Round5Roundings(atr_based_sl(signal, entry_price, current_atr.value,
                                      stop_loss_atr_multiplier))

TakeProfitRoundings(signal, entry_price, current_atr) ==
    IF Degenerate(current_atr) THEN {0}
    ELSE Round5Roundings(atr_based_tp(signal, entry_price, current_atr.value,
                                      take_profit_atr_multiplier))

\* where the last close of the window lies against its EMA
LastClose(w) ==
    CASE w.cross \in {"up", "flat_above"}   -> "above"
      [] w.cross \in {"down", "flat_below"} -> "below"
      [] OTHER                              -> "on"

\* an exit rule that reads the comparisons the wrong way round
ExitsOnEntrySide(w, position) ==
    \/ position.type = "BUY"  /\ LastClose(w) = "above"
    \/ position.type = "SELL" /\ LastClose(w) = "below"

\* EMACrossoverStrategy.should_exit
should_exit(w, position) ==
    \/ position.type = "BUY"  /\ LastClose(w) = "below"
    \/ position.type = "SELL" /\ LastClose(w) = "above"

-----------------------------------------------------------------------------
(* TradingBot (main.py): the steps of one pass of run_main_loop.           *)

\* TRADING_SETTINGS['lot_size'], used when the strategy gives no stop
lot_size == <<1, 100>>
\* STRATEGY_SETTINGS['update_interval'], seconds
update_interval == 1
\* the pause of the loop outside trading hours, seconds
closed_hours_sleep == 60

\* a mutant of PositionsForEntryCheck: the list the exit scan worked on
PositionsOfExitScan(venue_positions, scanned) == scanned

\* the positions check_trading_allowed counts: get_positions() asked anew
PositionsForEntryCheck(venue_positions, scanned) == venue_positions

\* check_exit_signals: the tickets close_position is called for
ExitTickets(w, pos) == {t \in DOMAIN pos : should_exit(w, pos[t])}

\* the venue carries out an order only if its volume is a lot it trades
VenueTakes(volume, symbol_info) ==
    IsLotMultiple(volume, symbol_info) /\ InLotBounds(volume, symbol_info)

\* strategy.name of the instance load_strategy builds
StrategyDisplayName(name) == IF name = "ema_crossover" THEN "EMA_Crossover" ELSE name

\* check_entry_signals: how far it got and what it asked the venue for.
\* info, symbol_info, entry_price: what the venue answers; positions_list:
\* what get_positions() answers to the risk gate, a list or None, and
\* positions_again: what it answers to the gate inside validate_trade;
\* venue_done: the venue's answer to the order; errs: the rounding errors of
\* the stops (errs.stop, errs.target), of the size (errs.size) and of the
\* validation (errs.validation)
check_entry_signals(name, w, info, positions_list, positions_again, flag, last, wall_time, symbol_info, entry_price, atr, venue_done, errs) ==
    LET gate        == check_trading_allowed(info, positions_list, flag)
        regate      == check_trading_allowed(info, positions_again, gate.flag)
        signal      == get_signal(name, signal_cooldown(name), w, last, wall_time).signal
        stop_loss   == get_stop_loss(signal, entry_price, atr, errs.stop)
        take_profit == get_take_profit(signal, entry_price, atr, errs.target)
        volume      == IF stop_loss # Zero
                       THEN calculate_position_size(FALSE, entry_price, stop_loss, info,
                                                    symbol_info, errs.size)
                       ELSE lot_size
        validation  == validate_trade(volume, entry_price, stop_loss, take_profit,
                                      regate.allowed, info, symbol_info, errs.validation)
        order       == [type |-> signal, volume |-> validation.adjusted_volume,
                        sl |-> stop_loss, tp |-> take_profit,
                        comment |-> <<StrategyDisplayName(name), "-", signal>>]
        outcome     == IF ~gate.allowed THEN "not_allowed"
                       ELSE IF signal = "None" THEN "no_signal"
                       ELSE IF ~validation.valid THEN "invalid"
                       ELSE IF venue_done /\ VenueTakes(order.volume, symbol_info) THEN "accepted"
                       ELSE "rejected"
    IN  [outcome |-> outcome, why |-> gate.why, flag |-> gate.flag,
         order   |-> IF outcome \in {"accepted", "rejected"} THEN order ELSE NoInfo]

\* the deciding rounding errors of sizing and validating an order on the
\* signal given
OrderRoundings(signal, info, symbol_info, entry_price, atr) ==
    IF signal = "None"
    THEN {[stop |-> 0, target |-> 0, size |-> 0, validation |-> ExactValidation]}
    ELSE
    LET stop_loss(s)   == get_stop_loss(signal, entry_price, atr, s)
        take_profit(t) == get_take_profit(signal, entry_price, atr, t)
        volume(s, e)   == IF stop_loss(s) # Zero
                          THEN calculate_position_size(FALSE, entry_price, stop_loss(s),
                                                       info, symbol_info, e)
                          ELSE lot_size
        sized(s, t)    ==
            UNION { [stop : {s}, target : {t}, size : {e},
                     validation : ValidationRoundings(volume(s, e), entry_price,
                                                      stop_loss(s), take_profit(t),
                                                      info, symbol_info)] :
                    e \in SizeRoundings(FALSE, entry_price, stop_loss(s), info,
                                        symbol_info) }
    IN  UNION { sized(s, t) : s \in StopLossRoundings(signal, entry_price, atr),
                              t \in TakeProfitRoundings(signal, entry_price, atr) }

\* the deciding rounding errors of one call of check_entry_signals
EntryRoundings(name, w, last, wall_time, info, symbol_info, entry_price, atr) ==
    OrderRoundings(get_signal(name, signal_cooldown(name), w, last, wall_time).signal,
                   info, symbol_info, entry_price, atr)

-----------------------------------------------------------------------------
(* The multi-strategy schedulers: MultiStrategyTradingBot ("multi"),        *)
(* ProductionMultiStrategyBot ("production") and MacMultiStrategyBot       *)
(* ("mac").  A position's comment is kept as the sequence of the parts the *)
(* scheduler joins with "_"; no strategy name is a prefix of another.      *)

\* the enabled strategies in the order the loop takes them
Strategies(b) ==
    CASE b = "multi"      -> <<"ema_crossover", "aggressive_scalp", "momentum_breakout",
                               "mean_reversion", "hft_ema">>
      [] b = "production" -> <<"aggressive_scalp", "momentum_breakout">>
      [] b = "mac"        -> <<"simple_ema">>

\* config['max_positions']
StrategyMaxPositions(b, name) ==
    CASE b = "mac"        -> 3
      [] b = "production" -> (IF name = "aggressive_scalp" THEN 6 ELSE 4)
      [] b = "multi"      -> (CASE name = "aggressive_scalp" -> 3
                                [] name = "hft_ema"          -> 4
                                [] OTHER                     -> 2)

\* the signal_cooldown the strategy instance is built with
StrategyCooldown(b, name) ==
    CASE b = "mac"        -> 10
      [] b = "production" -> (IF name = "aggressive_scalp" THEN 5 ELSE 8)
      [] b = "multi"      -> signal_cooldown(name)

\* seconds on the clock of the multi-strategy loops, which counts tenths
Tenths(seconds) == 10 * seconds

\* the signal_cooldown of the strategy on the clock of its loop
CooldownTenths(b, name) == Tenths(StrategyCooldown(b, name))

\* what get_positions() answers a multi-strategy scheduler: the positions
\* of the venue, or, when the query fails, None (MT5Connector, not
\* connected or an exception) or [] (MacMT5Connector, positions_get()
\* answers None or raises)
Listings(b, pos) ==
    {[list |-> pos], IF b = "mac" THEN [list |-> <<>>] ELSE NoInfo}

\* the comment of the order: f"{strategy_name}_{signal}", "_prod", "_mac"
OrderComment(b, name, signal) ==
    CASE b = "production" -> <<name, signal, "prod">>
      [] b = "mac"        -> <<name, signal, "mac">>
      [] OTHER            -> <<name, signal>>

\* pos.get('comment', '').startswith(strategy_name)
StartsWith(comment, name) == Len(comment) >= 1 /\ comment[1] = name

\* get_strategy_positions: the tickets owned by the strategy; no answer of
\* the venue counts as no positions
get_strategy_positions(answer, name) ==
    IF answer = NoInfo THEN {}
    ELSE {t \in DOMAIN answer.list : StartsWith(answer.list[t].comment, name)}

\* len(...) >= config['max_positions'], in the loop and in the risk check
StrategyCapReached(count, cap) == count >= cap

\* MacCompatibleRiskManager: the limit on all open positions
mac_global_limit == 20

\* MacCompatibleRiskManager.check_trading_allowed(strategy_name, max_strategy_positions)
MacCheckTradingAllowed(info, answer, name, cap) ==
    IF info = NoInfo \/ answer = NoInfo THEN FALSE
    ELSE IF ~info.trade_allowed THEN FALSE
    ELSE IF Cardinality(DOMAIN answer.list) >= mac_global_limit THEN FALSE
    ELSE ~StrategyCapReached(Cardinality(get_strategy_positions(answer, name)), cap)

\* the risk check of the scheduler's execute function.  "multi" and
\* "production" call RiskManager.check_trading_allowed(strategy_name=...,
\* max_strategy_positions=...), which takes no such arguments: the TypeError
\* is caught by the execute function, which answers False
StrategyRiskCheck(b, info, answer, name, cap) ==
    IF b = "mac" THEN MacCheckTradingAllowed(info, answer, name, cap) ELSE FALSE

\* MacCompatibleStrategy.get_stop_loss / get_take_profit: 0.1% and 0.2%
MacStopLoss(signal, entry_price) ==
    RMul(entry_price, IF signal = "BUY" THEN <<999, 1000>> ELSE <<1001, 1000>>)
MacTakeProfit(signal, entry_price) ==
    RMul(entry_price, IF signal = "BUY" THEN <<1002, 1000>> ELSE <<998, 1000>>)

\* mt5.TRADE_RETCODE_DONE
TRADE_RETCODE_DONE == 10009
\* a return code other than DONE: an order filled in part
TRADE_RETCODE_DONE_PARTIAL == TRADE_RETCODE_DONE + 1

\* what mt5.order_send answers: nothing, or a result with its return code
VenueAnswers == {NoInfo, [retcode |-> TRADE_RETCODE_DONE], [retcode |-> TRADE_RETCODE_DONE_PARTIAL]}

\* the answer recorded for a turn that sent no order
NotAsked == [asked |-> FALSE]

\* a place_market_order that takes every result of the venue for a success
AnyResultIsSuccess(order, answer) ==
    IF answer = NoInfo THEN NoInfo ELSE [order |-> order, retcode |-> answer.retcode]

\* place_market_order: None unless order_send answers TRADE_RETCODE_DONE
place_market_order(order, answer) ==
    IF answer = NoInfo THEN NoInfo
    ELSE IF answer.retcode # TRADE_RETCODE_DONE THEN NoInfo
    ELSE [order |-> order, retcode |-> answer.retcode]

\* what one signal adds to the scheduler's counters: executed is the answer
\* of the execute function
CountTrade(executed) ==
    IF executed THEN [trades |-> 1, successful_trades |-> 1, failed_trades |-> 0]
    ELSE [trades |-> 0, successful_trades |-> 0, failed_trades |-> 1]

\* a turn without a signal counts nothing
NoTrade == [trades |-> 0, successful_trades |-> 0, failed_trades |-> 0]

\* one strategy's turn in the loop: how far it got, the order it placed and
\* the strategy's clock afterwards.  listed: what get_positions() answers
\* the cap test of the loop; listed_again: what it answers the risk check
\* of the execute function, which asks anew; answer: what the venue answers
\* to the order; last, wall_time and the bar time of w: tenths of a second.
\* Only MacMultiStrategyBot gets as far as the order: its stops are those
\* of MacCompatibleStrategy
StrategyTurn(b, name, w, info, listed, listed_again, last, wall_time, entry_price, answer) ==
    LET cap    == StrategyMaxPositions(b, name)
        owned  == get_strategy_positions(listed, name)
        sig    == get_signal(name, CooldownTenths(b, name), w, last, wall_time)
        order  == Position(sig.signal, MacStopLoss(sig.signal, entry_price),
                           MacTakeProfit(sig.signal, entry_price), <<1, 100>>,
                           OrderComment(b, name, sig.signal))
        result == place_market_order(order, answer)
    IN  IF StrategyCapReached(Cardinality(owned), cap)
        THEN [outcome |-> "at_cap", order |-> NoInfo, last_signal_time |-> last,
              answer |-> NotAsked, result |-> NoInfo, stats |-> NoTrade]
        ELSE IF sig.signal = "None"
        THEN [outcome |-> "no_signal", order |-> NoInfo,
              last_signal_time |-> sig.last_signal_time,
              answer |-> NotAsked, result |-> NoInfo, stats |-> NoTrade]
        ELSE IF ~StrategyRiskCheck(b, info, listed_again, name, cap)
        THEN [outcome |-> "risk_check_failed", order |-> NoInfo,
              last_signal_time |-> sig.last_signal_time,
              answer |-> NotAsked, result |-> NoInfo, stats |-> CountTrade(FALSE)]
        ELSE [outcome |-> IF result # NoInfo THEN "accepted" ELSE "rejected", order |-> order,
              last_signal_time |-> sig.last_signal_time,
              answer |-> answer, result |-> result, stats |-> CountTrade(result # NoInfo)]

-----------------------------------------------------------------------------
(* Values the venue answers with in the specifications below.              *)

\* get_symbol_info('XAUUSD') of a gold CFD: lots of 0.01 up to 100, 100 oz a lot
XAUUSD ==
    [minimum_lot |-> <<1, 100>>, maximum_lot |-> RR(100), lot_step |-> <<1, 100>>,
     contract_size |-> 100, point |-> <<1, 100>>, trade_allowed |-> TRUE]
\* a symbol traded in whole lots, two at a time
WholeLots ==
    [minimum_lot |-> RR(2), maximum_lot |-> RR(10), lot_step |-> RR(2),
     contract_size |-> 1, point |-> RR(1), trade_allowed |-> TRUE]

AccountInfo(balance, equity, profit, free_margin, leverage, allowed) ==
    [balance |-> balance, equity |-> equity, profit |-> profit,
     free_margin |-> free_margin, leverage |-> leverage, trade_allowed |-> allowed]

\* the state of the variables a specification does not use
HistInit ==
    [daily_loss_returned |-> FALSE, drawdown_breached |-> FALSE]

-----------------------------------------------------------------------------
(* SpecSize: calculate_position_size and validate_trade as functions of    *)
(* their arguments and of what the venue answers.                          *)

\* the requested volumes run over quarters of a lot step, from 0 and from max_lot
MaxQuarterSteps == 10

SizeAccounts ==
    { AccountInfo(b, b, 0, fm, lev, TRUE) :
        b \in {1000, 10000}, fm \in {0, 1, 333, 10000}, lev \in {1, 100} }
    \cup {NoInfo}
SizeSymbols == {XAUUSD, WholeLots, [XAUUSD EXCEPT !.trade_allowed = FALSE], NoInfo}
\* the stop 1.6 below the entry puts the size half way between two lots
SizeStops   == {RR(2000), RR(1990), RR(1950), <<199999, 100>>, <<19984, 10>>}

SizeVolume(symbol_info, k, from_max) ==
    LET si == IF symbol_info = NoInfo THEN XAUUSD ELSE symbol_info
        dv == RMul(Rat(k, 4), si.lot_step)
    IN  IF from_max THEN RAdd(si.maximum_lot, dv) ELSE dv

NoValidation ==
    [valid |-> FALSE, errors |-> <<>>, warnings |-> <<>>, adjusted_volume |-> Zero]

SizeInit ==
    /\ obs \in { [op |-> "inputs", account_info |-> a, symbol_info |-> s,
                  entry_price |-> RR(2000), stop_loss |-> st, take_profit |-> RR(2020),
                  volume |-> SizeVolume(s, k, m), size |-> Zero,
                  validation |-> NoValidation, size_err |-> 0, margin_err |-> 0] :
                 a \in SizeAccounts, s \in SizeSymbols, st \in SizeStops,
                 k \in 0..MaxQuarterSteps, m \in BOOLEAN }
    /\ positions = <<>>
    /\ nextTicket = 1
    /\ account = obs.account_info
    /\ price = 2000
    /\ now = 0
    /\ ticks = 0
    /\ bot = "none"
    /\ running = FALSE
    /\ pc = "off"
    /\ window = NoInfo
    /\ last_signal_time = <<>>
    /\ max_drawdown_reached = FALSE
    /\ hist = HistInit

\* risk_manager.calculate_position_size(symbol, entry_price, stop_loss)
SizeCall ==
    /\ obs.op = "inputs"
    /\ \E err \in RoundingErrors :
          obs' = [obs EXCEPT !.op = "calculate_position_size",
                             !.size = calculate_position_size(FALSE, obs.entry_price,
                                          obs.stop_loss, obs.account_info,
                                          obs.symbol_info, err),
                             !.size_err = err]
    /\ UNCHANGED <<venueVars, clockVars, loopVars, last_signal_time,
                   max_drawdown_reached, hist>>

\* risk_manager.validate_trade(symbol, side, volume, entry_price, stop_loss, take_profit)
ValidateCall ==
    /\ obs.op = "inputs"
    /\ \E errs \in ValidationErrors :
       LET gate == check_trading_allowed(obs.account_info, [list |-> positions],
                                         max_drawdown_reached)
       IN  /\ obs' = [obs EXCEPT !.op = "validate_trade",
                         !.validation = validate_trade(obs.volume, obs.entry_price,
                                            obs.stop_loss, obs.take_profit, gate.allowed,
                                            obs.account_info, obs.symbol_info, errs),
                         !.margin_err = errs.margin]
           /\ max_drawdown_reached' = gate.flag
    /\ UNCHANGED <<venueVars, clockVars, loopVars, last_signal_time, hist>>

SizeNext == SizeCall \/ ValidateCall

SpecSize == SizeInit /\ [][SizeNext]_vars

\* C6: whatever calculate_position_size returns is a multiple of lot_step
\* within [minimum_lot, maximum_lot], also after the margin and risk caps,
\* on a zero stop distance and when the venue has no data
C6_SizeIsTradeableLot ==
    (obs.op = "calculate_position_size" /\ obs.symbol_info # NoInfo)
        => /\ IsLotMultiple(obs.size, obs.symbol_info)
           /\ InLotBounds(obs.size, obs.symbol_info)

\* C7: validate_trade never answers valid together with an adjusted_volume
\* outside [minimum_lot, maximum_lot]
C7_ValidImpliesInLotBounds ==
    (obs.op = "validate_trade" /\ obs.validation.valid)
        => InLotBounds(obs.validation.adjusted_volume, obs.symbol_info)

-----------------------------------------------------------------------------
(* SpecGate: check_trading_allowed called again and again while the        *)
(* account's profit and equity move.                                       *)

GateBalance == 10000
\* equity = balance + floating profit; the last one carries costs that the
\* venue books into equity but not into profit
GateAccounts ==
    { AccountInfo(GateBalance, GateBalance + p, p, GateBalance, 100, ta) :
        p \in {0, -400, -500, -1000}, ta \in BOOLEAN }
    \cup { AccountInfo(GateBalance, GateBalance - 1000, -400, GateBalance, 100, TRUE) }

\* n open positions, tickets 1..n
SomePositions(n) ==
    [t \in 1..n |-> Position("BUY", Zero, Zero, <<1, 100>>, <<"manual">>)]

GateInit ==
    /\ positions = <<>>
    /\ nextTicket = 1
    /\ account = AccountInfo(GateBalance, GateBalance, 0, GateBalance, 100, TRUE)
    /\ price = 2000
    /\ now = 0
    /\ ticks = 0
    /\ bot = "none"
    /\ running = FALSE
    /\ pc = "off"
    /\ window = NoInfo
    /\ last_signal_time = <<>>
    /\ max_drawdown_reached = FALSE
    /\ obs = [op |-> "none"]
    /\ hist = HistInit

\* the venue: profit and equity move, trading is switched on or off
GateAccountMoves ==
    /\ account' \in GateAccounts \ {account}
    /\ UNCHANGED <<positions, nextTicket, price, clockVars, loopVars, last_signal_time,
                   max_drawdown_reached, obs, hist>>

\* the venue: positions are opened and closed
GatePositionsMove ==
    /\ positions' \in {SomePositions(n) : n \in {0, max_positions - 1, max_positions}}
                      \ {positions}
    /\ UNCHANGED <<nextTicket, account, price, clockVars, loopVars, last_signal_time,
                   max_drawdown_reached, obs, hist>>

\* risk_manager.check_trading_allowed(); info: what get_account_info()
\* answers, listed: what get_positions() answers
GateCall ==
    \E info \in {account, NoInfo}, listed \in {[list |-> positions], NoInfo} :
        LET gate == check_trading_allowed(info, listed, max_drawdown_reached)
        IN  /\ obs' = [op |-> "check_trading_allowed", allowed |-> gate.allowed,
                       why |-> gate.why, info |-> info, listed |-> listed # NoInfo,
                       open |-> Cardinality(DOMAIN positions)]
            /\ max_drawdown_reached' = gate.flag
            /\ hist' = [hist EXCEPT
                          !.daily_loss_returned = @ \/ gate.why = "daily_loss",
                          !.drawdown_breached   = @ \/ (info # NoInfo /\ _check_max_drawdown(info))]
            /\ UNCHANGED <<venueVars, clockVars, loopVars, last_signal_time>>

GateNext == GateAccountMoves \/ GatePositionsMove \/ GateCall

SpecGate == GateInit /\ [][GateNext]_vars

\* C2: once check_trading_allowed has answered False because of the daily
\* loss, every later call of the session answers False
C2_DailyLossLatches ==
    (hist.daily_loss_returned /\ obs.op = "check_trading_allowed") => ~obs.allowed

\* C3: once a call has seen balance - equity >= balance * max_drawdown, every
\* later call of the session answers False
C3_DrawdownLatches ==
    (hist.drawdown_breached /\ obs.op = "check_trading_allowed") => ~obs.allowed

-----------------------------------------------------------------------------
(* SpecTrail: update_trailing_stops run again and again over two open      *)
(* positions while the price moves.                                        *)

\* the price moves over 2000.00 + k * 0.01, k in 0..MaxPriceSteps
MaxPriceSteps == 8

TrailPrices == { RAdd(RR(2000), Rat(k, 100)) : k \in 0..MaxPriceSteps }

\* stops a position may carry when the session starts: none, or one set by hand
TrailStartStops(type) ==
    {Zero} \cup (IF type = "BUY" THEN {<<200001, 100>>} ELSE {<<200007, 100>>})

TrailInit ==
    /\ \E s1 \in TrailStartStops("BUY"), s2 \in TrailStartStops("SELL") :
          positions = [t \in 1..2 |->
                         IF t = 1 THEN Position("BUY", s1, RR(2020), <<1, 100>>, <<"manual">>)
                         ELSE Position("SELL", s2, RR(1980), <<1, 100>>, <<"manual">>)]
    /\ nextTicket = 3
    /\ account = AccountInfo(GateBalance, GateBalance, 0, GateBalance, 100, TRUE)
    /\ price \in TrailPrices
    /\ now = 0
    /\ ticks = 0
    /\ bot = "none"
    /\ running = FALSE
    /\ pc = "off"
    /\ window = NoInfo
    /\ last_signal_time = <<>>
    /\ max_drawdown_reached = FALSE
    /\ obs = [op |-> "none"]
    /\ hist = HistInit

TrailPriceMoves ==
    /\ price' \in TrailPrices \ {price}
    /\ obs' = [op |-> "none"]
    /\ UNCHANGED <<positions, nextTicket, account, clockVars, loopVars, last_signal_time,
                   max_drawdown_reached, hist>>

\* risk_manager.update_trailing_stops(); price: the bid, ask: the ask the
\* venue quotes, info: what get_symbol_info() answers, errs: the rounding
\* errors of the candidates that tie, accepted: the modifications the venue
\* carries out
TrailPass ==
    \E info \in {XAUUSD, NoInfo}, ask \in {p \in TrailPrices : RLe(price, p)},
       accepted \in SUBSET DOMAIN positions :
      \E errs \in [TiedStops(positions, PriceCurrent(positions, price, ask), info)
                      -> RoundingErrors] :
        LET log == update_trailing_stops(positions,
                       Quotes(positions, PriceCurrent(positions, price, ask), info, errs),
                       accepted)
        IN  /\ positions' = [t \in DOMAIN positions |->
                               [positions[t] EXCEPT !.sl = log[t].sl_after]]
            /\ obs' = [op |-> "update_trailing_stops", log |-> log]
            /\ UNCHANGED <<nextTicket, account, price, clockVars, loopVars,
                           last_signal_time, max_drawdown_reached, hist>>

TrailNext == TrailPriceMoves \/ TrailPass

SpecTrail == TrailInit /\ [][TrailNext]_vars

\* C1: in every trailing pass a modification is sent for a position exactly
\* when its stop is unset or the candidate, the double the pass computed,
\* strictly improves it (higher for BUY, lower for SELL); so the stop a pass
\* leaves behind is never looser than the stop it found
C1_StopNeverLoosens ==
    obs.op = "update_trailing_stops" =>
        \A t \in DOMAIN obs.log :
            LET e == obs.log[t]
                \* the candidate lies strictly above / below the stop in place
                above == RLt(e.current_sl, e.new_sl)
                            \/ (e.new_sl = e.current_sl /\ e.err > 0)
                below == RLt(e.new_sl, e.current_sl)
                            \/ (e.new_sl = e.current_sl /\ e.err < 0)
            IN  /\ e.sent =>
                     \/ e.current_sl = Zero
                     \/ (e.type = "BUY"  /\ above)
                     \/ (e.type = "SELL" /\ below)
                /\ (e.current_sl # Zero /\ e.type = "BUY")  => RLe(e.current_sl, e.sl_after)
                /\ (e.current_sl # Zero /\ e.type = "SELL") => RLe(e.sl_after, e.current_sl)
                /\ (e.current_sl # Zero /\ e.type = "BUY" /\ ~above)
                      => (~e.sent /\ e.sl_after = e.current_sl)
                /\ (e.current_sl # Zero /\ e.type = "SELL" /\ ~below)
                      => (~e.sent /\ e.sl_after = e.current_sl)

\* a pass that raised a BUY stop already set and sent nothing for a SELL
\* whose candidate equals the stop in place
C1_Witness ==
    /\ obs.op = "update_trailing_stops"
    /\ \E t \in DOMAIN obs.log :
          /\ obs.log[t].type = "BUY" /\ obs.log[t].current_sl # Zero
          /\ RLt(obs.log[t].current_sl, obs.log[t].sl_after)
    /\ \E t \in DOMAIN obs.log :
          /\ obs.log[t].type = "SELL" /\ obs.log[t].current_sl # Zero
          /\ obs.log[t].new_sl = obs.log[t].current_sl
          /\ ~obs.log[t].sent

-----------------------------------------------------------------------------
(* SpecSignal: get_signal of one strategy instance called again and again  *)
(* while the clock runs and new bars arrive.                               *)

\* the clock starts at StartTime and runs for at most MaxTicks steps of
\* TickSeconds each
StartTime == 1000
MaxTicks == 3
TickSeconds == {update_interval, min_interval_seconds - 1}

SignalInit ==
    /\ positions = <<>>
    /\ nextTicket = 1
    /\ account = AccountInfo(GateBalance, GateBalance, 0, GateBalance, 100, TRUE)
    /\ price = 2000
    /\ now = StartTime
    /\ ticks = 0
    /\ bot = "none"
    /\ running = FALSE
    /\ pc = "off"
    /\ window = Window(StartTime, "flat")
    /\ \E name \in StrategyNames :
          /\ last_signal_time = [n \in {name} |-> InitialSignalTime(n)]
          /\ hist = [emit_time |-> [n \in {name} |-> NoneTime],
                     emit_bar  |-> [n \in {name} |-> NoneTime]]
    /\ max_drawdown_reached = FALSE
    /\ obs = [op |-> "none"]

SignalClock ==
    /\ ticks < MaxTicks
    /\ \E d \in TickSeconds : now' = now + d
    /\ ticks' = ticks + 1
    /\ UNCHANGED <<venueVars, loopVars, last_signal_time, max_drawdown_reached, obs, hist>>

\* get_market_data answers another window: the last bar updated, or a new bar
SignalWindow ==
    /\ \E b \in {window.bar_time, now}, c \in {"up", "down", "flat"} :
          /\ Window(b, c) # window
          /\ window' = Window(b, c)
    /\ UNCHANGED <<bot, venueVars, clockVars, running, pc, last_signal_time,
                   max_drawdown_reached, obs, hist>>

\* strategy.get_signal(data) of the instance
SignalCall ==
    \E n \in DOMAIN last_signal_time :
        LET r == get_signal(n, signal_cooldown(n), window, last_signal_time[n], now)
        IN  /\ last_signal_time' = [last_signal_time EXCEPT ![n] = r.last_signal_time]
            /\ obs' = [op |-> "get_signal", name |-> n, result |-> r.signal,
                       call_time |-> now, bar_time |-> window.bar_time,
                       prev_time |-> hist.emit_time[n], prev_bar |-> hist.emit_bar[n]]
            /\ hist' = IF r.signal = "None" THEN hist
                       ELSE [hist EXCEPT !.emit_time[n] = now, !.emit_bar[n] = window.bar_time]
            /\ UNCHANGED <<venueVars, clockVars, loopVars, max_drawdown_reached>>

\* strategy.update_signal_history(signal), which the caller may call with the
\* signal it was given
SignalRecorded ==
    /\ obs.op = "get_signal" /\ obs.result # "None"
    /\ last_signal_time' =
          [last_signal_time EXCEPT ![obs.name] = update_signal_history(now)]
    /\ obs' = [op |-> "update_signal_history", name |-> obs.name]
    /\ UNCHANGED <<venueVars, clockVars, loopVars, max_drawdown_reached, hist>>

SignalNext == SignalClock \/ SignalWindow \/ SignalCall \/ SignalRecorded

SpecSignal == SignalInit /\ [][SignalNext]_vars

\* C8: when get_signal of an instance answers a signal, its previous signal
\* (if any) was answered at least signal_cooldown seconds before, by the wall
\* clock or by the time stamps of the two windows
C8_OneSignalPerCooldown ==
    (obs.op = "get_signal" /\ obs.result # "None" /\ obs.prev_time # NoneTime)
        => \/ obs.call_time - obs.prev_time >= signal_cooldown(obs.name)
           \/ obs.bar_time - obs.prev_bar >= signal_cooldown(obs.name)

-----------------------------------------------------------------------------
(* Spec: TradingBot.run_main_loop with the EMA crossover strategy on       *)
(* XAUUSD, the venue closing positions and moving the account meanwhile.   *)

\* the loop sleeps at most MaxSleeps times and the venue closes at most
\* MaxVenueCloses positions on its own
MaxSleeps == 2
MaxVenueCloses == 1

\* the ATR of the windows here
WindowATR == Number(RR(4))

\* positions found open when the bot starts: n alike, opened by hand, no stops
StartPositions(n) ==
    [t \in 1..n |-> Position("SELL", Zero, Zero, <<1, 100>>, <<"manual">>)]

\* calls counted per strategy in the pass under way: none yet
NoCalls(names) == [n \in names |-> 0]

Oldest(pos) == CHOOSE t \in DOMAIN pos : \A u \in DOMAIN pos : t <= u
Newest(pos) == CHOOSE t \in DOMAIN pos : \A u \in DOMAIN pos : u <= t

\* the account well funded, and almost out of free margin
BotAccounts ==
    { AccountInfo(GateBalance, GateBalance, 0, GateBalance, 100, TRUE),
      AccountInfo(GateBalance, GateBalance, 0, 1, 1, TRUE) }

BotWindows ==
    { Window(StartTime, c) : c \in {"up", "down", "flat_above", "flat_below", "flat"} }

Init ==
    /\ positions \in {StartPositions(n) : n \in {0, max_positions}}
    /\ nextTicket = max_positions + 1
    /\ account = AccountInfo(GateBalance, GateBalance, 0, GateBalance, 100, TRUE)
    /\ price = RR(2000)
    /\ now = StartTime
    /\ ticks = 0
    /\ bot = "single"
    /\ running = TRUE
    /\ pc = "loop"
    /\ window = Window(StartTime, "flat")
    /\ last_signal_time = [n \in {"ema_crossover"} |-> InitialSignalTime(n)]
    /\ max_drawdown_reached = FALSE
    /\ obs = [op |-> "none"]
    /\ hist = [last_accept |-> NoneTime, last_attempt |-> NoneTime,
               scanned |-> <<>>, closed |-> {}, done |-> <<>>, venue_closes |-> 0,
               evaluated |-> NoCalls({"ema_crossover"}),
               submitted |-> NoCalls({"ema_crossover"})]

\* the venue closes a position (its stop or target is hit, or by hand): the
\* oldest one, which stands for any of those found at the start, or the newest
VenueCloses ==
    /\ positions # <<>> /\ hist.venue_closes < MaxVenueCloses
    /\ \E t \in {Oldest(positions), Newest(positions)} :
          positions' = [u \in DOMAIN positions \ {t} |-> positions[u]]
    /\ hist' = [hist EXCEPT !.venue_closes = @ + 1]
    /\ UNCHANGED <<nextTicket, account, price, clockVars, loopVars, last_signal_time,
                   max_drawdown_reached, obs>>

AccountMoves ==
    /\ account' \in BotAccounts \ {account}
    /\ UNCHANGED <<positions, nextTicket, price, clockVars, loopVars, last_signal_time,
                   max_drawdown_reached, obs, hist>>

\* what a session that keeps a record of its shutdown notes down: where the
\* loop stood when the signal came and at what time, and each run of stop()
NoteSignal(h, at, time) ==
    IF "signalled" \in DOMAIN h
    THEN [h EXCEPT !.signalled = at, !.signal_time = time] ELSE h
NoteStop(h) ==
    IF "stops" \in DOMAIN h THEN [h EXCEPT !.stops = @ + 1] ELSE h

\* signal_handler: running = False
SignalHandler ==
    /\ running
    /\ running' = FALSE
    /\ hist' = NoteSignal(hist, pc, now)
    /\ UNCHANGED <<bot, venueVars, clockVars, pc, window, last_signal_time,
                   max_drawdown_reached, obs>>

\* a loop that runs stop() and tests its condition once more
StopsAgain ==
    /\ pc \in {"loop", "off"} /\ ~running
    /\ "stops" \in DOMAIN hist => hist.stops < 2
    /\ pc' = IF pc = "loop" THEN "off" ELSE "loop"
    /\ hist' = NoteStop(hist)
    /\ UNCHANGED <<bot, venueVars, clockVars, running, window, last_signal_time,
                   max_drawdown_reached, obs>>

\* the loop condition fails: stop()
LoopExit ==
    /\ pc = "loop" /\ ~running
    /\ pc' = "off"
    /\ hist' = NoteStop(hist)
    /\ UNCHANGED <<bot, venueVars, clockVars, running, window, last_signal_time,
                   max_drawdown_reached, obs>>

\* outside trading hours: sleep(60) and around again
NotTradingTime ==
    /\ bot = "single" /\ pc = "loop" /\ running /\ ticks < MaxSleeps
    /\ now' = now + closed_hours_sleep
    /\ ticks' = ticks + 1
    /\ UNCHANGED <<venueVars, loopVars, last_signal_time, max_drawdown_reached, obs, hist>>

\* a loop whose test of the data lacks the "continue"
GoesOnWithoutData(b) == IF b = "single" THEN "trail" ELSE Strategies(b)[1]

\* "sleep(...); continue" when get_market_data answers nothing or too few bars
AfterNoData(b) == "sleep"

\* get_market_data answers nothing or too few bars: sleep(update_interval)
NoMarketData ==
    /\ bot = "single" /\ pc = "loop" /\ running
    /\ pc' = AfterNoData(bot)
    /\ hist' = [hist EXCEPT !.done = <<"no_market_data">>]
    /\ UNCHANGED <<bot, venueVars, clockVars, running, window, last_signal_time,
                   max_drawdown_reached, obs>>

\* get_market_data answers a window
MarketData ==
    /\ bot = "single" /\ pc = "loop" /\ running
    /\ window' \in BotWindows
    /\ pc' = "trail"
    /\ UNCHANGED <<bot, venueVars, clockVars, running, last_signal_time,
                   max_drawdown_reached, obs, hist>>

\* risk_manager.update_trailing_stops(); the venue carries out all the
\* modifications of the pass or none
TrailStep ==
    /\ pc = "trail"
    /\ \E accepted \in {{}, DOMAIN positions} :
          \E errs \in [TiedStops(positions, PriceCurrent(positions, price, price), XAUUSD)
                           -> RoundingErrors] :
          \E log \in {update_trailing_stops(positions,
                         Quotes(positions, PriceCurrent(positions, price, price), XAUUSD, errs),
                         accepted)} :
              /\ positions' = [t \in DOMAIN positions |->
                                 [positions[t] EXCEPT !.sl = log[t].sl_after]]
              /\ obs' = [op |-> "update_trailing_stops", log |-> log]
    /\ pc' = "exit"
    /\ hist' = [hist EXCEPT !.done = Append(@, "update_trailing_stops")]
    /\ UNCHANGED <<bot, nextTicket, account, price, clockVars, running, window,
                   last_signal_time, max_drawdown_reached>>

\* check_exit_signals(market_data); the venue carries out all the closes of
\* the scan or none
ExitStep ==
    /\ pc = "exit"
    /\ \E venue_done \in BOOLEAN :
          LET closed == IF venue_done THEN ExitTickets(window, positions) ELSE {}
          IN  /\ positions' = [t \in DOMAIN positions \ closed |-> positions[t]]
              /\ obs' = [op |-> "check_exit_signals", closed |-> closed]
              /\ hist' = [hist EXCEPT !.done = Append(@, "check_exit_signals"),
                                      !.closed = closed, !.scanned = positions]
    /\ pc' = "entry"
    /\ UNCHANGED <<bot, nextTicket, account, price, clockVars, running, window,
                   last_signal_time, max_drawdown_reached>>

\* the conditions under which check_trading_allowed answers False
RiskBreach(info, counted) ==
    \/ info = NoInfo
    \/ Cardinality(DOMAIN counted) >= max_positions
    \/ _check_daily_loss_limit(info)
    \/ _check_max_drawdown(info)
    \/ ~info.trade_allowed

\* check_entry_signals(market_data)
EntryStep ==
    /\ pc = "entry"
    /\ \E info \in {account, NoInfo}, venue_done \in BOOLEAN :
          \E counted \in {PositionsForEntryCheck(positions, hist.scanned)} :
          \E errs \in EntryRoundings("ema_crossover", window,
                                       last_signal_time["ema_crossover"], now, info,
                                       XAUUSD, price, WindowATR) :
          \E r \in {check_entry_signals("ema_crossover", window, info, [list |-> counted],
                                       [list |-> counted], max_drawdown_reached,
                                       last_signal_time["ema_crossover"],
                                       now, XAUUSD, price, WindowATR, venue_done,
                                       errs)} :
          LET attempt == r.outcome \in {"invalid", "rejected", "accepted"}
          IN  /\ max_drawdown_reached' = r.flag
              /\ IF r.outcome = "accepted"
                 THEN /\ positions' = [t \in DOMAIN positions \cup {nextTicket} |->
                                         IF t = nextTicket
                                         THEN Position(r.order.type, r.order.sl, r.order.tp,
                                                       r.order.volume, r.order.comment)
                                         ELSE positions[t]]
                      /\ nextTicket' = nextTicket + 1
                      /\ last_signal_time' = [last_signal_time EXCEPT
                                                !["ema_crossover"] = update_signal_history(now)]
                 ELSE UNCHANGED <<positions, nextTicket, last_signal_time>>
              /\ obs' = [op |-> "check_entry_signals", outcome |-> r.outcome, why |-> r.why,
                         order |-> r.order, time |-> now,
                         counted |-> DOMAIN counted, open |-> DOMAIN positions,
                         closed |-> hist.closed,
                         done |-> Append(hist.done, "check_entry_signals"),
                         prev_accept |-> hist.last_accept, prev_attempt |-> hist.last_attempt,
                         breach |-> RiskBreach(info, counted),
                         kept |-> positions' = positions]
              /\ hist' = [hist EXCEPT
                            !.done = <<>>, !.closed = {}, !.scanned = <<>>,
                            !.evaluated["ema_crossover"] =
                                IF r.outcome # "not_allowed" THEN @ + 1 ELSE @,
                            !.submitted["ema_crossover"] =
                                IF r.outcome \in {"accepted", "rejected"} THEN @ + 1 ELSE @,
                            !.last_attempt = IF attempt THEN now ELSE @,
                            !.last_accept  = IF r.outcome = "accepted" THEN now ELSE @]
    /\ pc' = "sleep"
    /\ UNCHANGED <<bot, account, price, clockVars, running, window>>

\* log_status(); sleep(update_interval): the pass took d seconds in all; at
\* MaxSleeps only the sleep of a loop that is shutting down is followed
Sleep ==
    /\ bot = "single" /\ pc = "sleep" /\ (ticks < MaxSleeps \/ ~running)
    /\ \E d \in TickSeconds : now' = now + d
    /\ ticks' = IF ticks < MaxSleeps THEN ticks + 1 ELSE ticks
    /\ pc' = "loop"
    /\ obs' = [op |-> "none"]
    /\ hist' = [hist EXCEPT !.done = <<>>,
                            !.evaluated = NoCalls(DOMAIN @),
                            !.submitted = NoCalls(DOMAIN @)]
    /\ UNCHANGED <<bot, venueVars, running, window, last_signal_time,
                   max_drawdown_reached>>

Next ==
    \/ VenueCloses \/ AccountMoves \/ SignalHandler \/ LoopExit
    \/ NotTradingTime \/ NoMarketData \/ MarketData
    \/ TrailStep \/ ExitStep \/ EntryStep \/ Sleep

Spec == Init /\ [][Next]_vars

\* C5: every entry order the scheduler submits carries a volume that is a
\* multiple of the lot step and lies within [minimum_lot, maximum_lot]
C5_SubmittedVolumeIsLot ==
    (obs.op = "check_entry_signals" /\ obs.order # NoInfo)
        => /\ IsLotMultiple(obs.order.volume, XAUUSD)
           /\ InLotBounds(obs.order.volume, XAUUSD)

\* C9: between two entry submission attempts of the strategy instance
\* (accepted, rejected by validation or rejected by the venue) at least the
\* cooldown interval has elapsed
C9_CooldownBetweenAttempts ==
    (/\ obs.op = "check_entry_signals"
     /\ obs.outcome \in {"invalid", "rejected", "accepted"}
     /\ obs.prev_attempt # NoneTime)
        => obs.time - obs.prev_attempt >= min_interval_seconds

\* C10: the entry check of a pass comes after the trailing pass and the exit
\* scan of that pass, and the positions it counts are those open when it
\* runs: none of those the exit scan of the pass has closed is among them
C10_ExitsBeforeEntryFreshCount ==
    obs.op = "check_entry_signals" =>
        /\ obs.done = <<"update_trailing_stops", "check_exit_signals", "check_entry_signals">>
        /\ obs.counted \cap obs.closed = {}
        /\ obs.counted = obs.open
        /\ obs.why = "max_positions" => Cardinality(obs.open) >= max_positions

\* the exit scan closed positions of a full book and the entry check of the
\* same pass then opened one
C10_Witness ==
    /\ obs.op = "check_entry_signals"
    /\ obs.closed # {}
    /\ Cardinality(obs.closed \cup obs.open) >= max_positions
    /\ obs.outcome = "accepted"

-----------------------------------------------------------------------------
(* SpecMulti: the loop of a multi-strategy scheduler, one strategy's turn  *)
(* a step, the venue closing positions meanwhile.                          *)

Bots == {"multi", "production", "mac"}

\* a multi-strategy loop sleeps at most MaxMultiSleeps times
MaxMultiSleeps == 1

\* from the start of a pass to the start of the next, tenths of a second,
\* when the pass itself takes no time to speak of: sleep(max(0.05, 0.2 -
\* loop_time)) after the strategies' turns and sleep(0.1) without data;
\* MacMultiStrategyBot: sleep(max(0.1, 1.0 - loop_time)) and sleep(0.5)
ShortestPass(b, had_data) ==
    IF b = "mac" THEN (IF had_data THEN 10 ELSE 5)
    ELSE (IF had_data THEN 2 ELSE 1)

\* a pass takes the shortest time, or as long as the mac cooldown when the
\* calls of the pass are slow
MultiTickTenths(b, had_data) ==
    {ShortestPass(b, had_data), CooldownTenths("mac", "simple_ema")}

\* positions the first strategy of the scheduler owns when the session starts
StartOwned(b, k) ==
    [t \in 1..k |-> Position("BUY", Zero, Zero, <<1, 100>>,
                             OrderComment(b, Strategies(b)[1], "BUY"))]

FirstCap(b) == StrategyMaxPositions(b, Strategies(b)[1])

StrategySet(b) == {Strategies(b)[i] : i \in 1..Len(Strategies(b))}

\* a loop that gives Strategies(b)[i] its turn once more
SameStrategyAgain(b, i) == Strategies(b)[i]

\* the strategy whose turn follows that of Strategies(b)[i]
NextTurn(b, i) == IF i < Len(Strategies(b)) THEN Strategies(b)[i + 1] ELSE "sleep"

MultiInit ==
    /\ bot \in Bots
    /\ \E k \in {0, FirstCap(bot) - 1, FirstCap(bot)} :
          /\ positions = StartOwned(bot, k)
          /\ nextTicket = k + 1
          /\ hist = [venue_closes |-> 0, started_with |-> k, done |-> <<>>,
                     evaluated |-> NoCalls(StrategySet(bot)),
                     submitted |-> NoCalls(StrategySet(bot))]
    /\ account = AccountInfo(GateBalance, GateBalance, 0, GateBalance, 100, TRUE)
    /\ price = RR(2000)
    /\ now = StartTime
    /\ ticks = 0
    /\ running = TRUE
    /\ pc = "loop"
    /\ window = Window(StartTime, "flat")
    /\ last_signal_time = [n \in StrategySet(bot) |-> InitialSignalTime(n)]
    /\ max_drawdown_reached = FALSE
    /\ obs = [op |-> "none"]

\* get_market_data answers nothing or too few bars: a short sleep
MultiNoData ==
    /\ bot \in Bots /\ pc = "loop" /\ running
    /\ pc' = AfterNoData(bot)
    /\ hist' = [hist EXCEPT !.done = <<"no_market_data">>]
    /\ UNCHANGED <<bot, venueVars, clockVars, running, window, last_signal_time,
                   max_drawdown_reached, obs>>

\* get_market_data answers a window: the last bar updated, or a new bar
MultiData ==
    /\ bot \in Bots /\ pc = "loop" /\ running
    /\ \E b \in {window.bar_time, now} : window' = Window(b, "flat")
    /\ pc' = Strategies(bot)[1]
    /\ hist' = [hist EXCEPT !.done = <<"get_market_data">>]
    /\ UNCHANGED <<bot, venueVars, clockVars, running, last_signal_time,
                   max_drawdown_reached, obs>>

\* the turn of strategy pc; cross: what the window shows to this strategy
MultiTurn ==
    /\ bot \in Bots
    /\ \E i \in 1..Len(Strategies(bot)) :
          /\ pc = Strategies(bot)[i]
          /\ pc' = NextTurn(bot, i)
    /\ \E cross \in {"up", "down", "flat"}, listed \in Listings(bot, positions) :
        \* the risk check of "multi" and "production" raises before it lists
        \E listed_again \in IF bot = "mac" THEN Listings(bot, positions) ELSE {listed} :
        \* the venue answers only a turn that sends it an order
        \E answer \in IF StrategyTurn(bot, pc, Window(window.bar_time, cross), account,
                                       listed, listed_again, last_signal_time[pc], now,
                                       price, NoInfo).answer = NotAsked
                       THEN {NoInfo} ELSE VenueAnswers :
          LET r == StrategyTurn(bot, pc, Window(window.bar_time, cross), account, listed,
                                listed_again, last_signal_time[pc], now, price, answer)
          IN  /\ last_signal_time' = [last_signal_time EXCEPT ![pc] = r.last_signal_time]
              /\ IF r.outcome = "accepted"
                 THEN /\ positions' = [t \in DOMAIN positions \cup {nextTicket} |->
                                         IF t = nextTicket THEN r.order ELSE positions[t]]
                      /\ nextTicket' = nextTicket + 1
                 ELSE UNCHANGED <<positions, nextTicket>>
              /\ obs' = [op |-> "strategy_turn", name |-> pc, outcome |-> r.outcome,
                         owned |-> Cardinality(get_strategy_positions([list |-> positions], pc)),
                         before |-> hist.done,
                         stamped |-> r.last_signal_time # last_signal_time[pc],
                         capped |-> StrategyMaxPositions(bot, pc) <=
                                        Cardinality(get_strategy_positions(listed, pc)),
                         wanted |-> IF r.outcome # "at_cap" THEN "None"
                                    ELSE get_signal(pc, CooldownTenths(bot, pc),
                                                    Window(window.bar_time, cross),
                                                    last_signal_time[pc], now).signal,
                         tag |-> IF r.order = NoInfo THEN <<>> ELSE r.order.comment,
                         answer |-> r.answer, returned_none |-> r.result = NoInfo,
                         stats |-> r.stats, kept |-> positions' = positions,
                         permits |-> /\ r.outcome \notin {"at_cap", "no_signal"}
                                     /\ listed = [list |-> positions]
                                     /\ listed_again = [list |-> positions]
                                     /\ check_trading_allowed(account, listed,
                                                              max_drawdown_reached).allowed]
              /\ hist' = [hist EXCEPT
                            !.done = Append(@, "strategy_turn"),
                            !.evaluated[pc] = IF r.outcome # "at_cap" THEN @ + 1 ELSE @,
                            !.submitted[pc] =
                                IF r.outcome \in {"accepted", "rejected"} THEN @ + 1 ELSE @]
    /\ UNCHANGED <<bot, account, price, clockVars, running, window,
                   max_drawdown_reached>>

\* the sleep that ends the pass, after the turns or for want of data
MultiSleep ==
    /\ bot \in Bots /\ pc = "sleep" /\ ticks < MaxMultiSleeps
    /\ \E d \in MultiTickTenths(bot, hist.done # <<"no_market_data">>) : now' = now + d
    /\ ticks' = ticks + 1
    /\ pc' = "loop"
    /\ obs' = [op |-> "none"]
    /\ hist' = [hist EXCEPT !.done = <<>>,
                            !.evaluated = NoCalls(DOMAIN @),
                            !.submitted = NoCalls(DOMAIN @)]
    /\ UNCHANGED <<bot, venueVars, running, window, last_signal_time,
                   max_drawdown_reached>>

MultiNext ==
    \/ MultiNoData \/ MultiData \/ MultiTurn \/ MultiSleep
    \/ SignalHandler \/ LoopExit \/ VenueCloses

SpecMulti == MultiInit /\ [][MultiNext]_vars

\* C4: the open positions whose comment starts with a strategy's name are
\* never more than the max_positions the strategy is configured with
C4_StrategyCapHolds ==
    \A n \in DOMAIN last_signal_time :
        Cardinality({t \in DOMAIN positions : StartsWith(positions[t].comment, n)})
            <= StrategyMaxPositions(bot, n)

\* C11: when a strategy's entry is considered in a pass of a multi-strategy
\* scheduler, the trailing-stop pass and after it the exit scan have run
\* earlier in that pass
C11_TrailAndExitBeforeEntries ==
    obs.op = "strategy_turn" =>
        \E i, j \in DOMAIN obs.before :
            /\ i < j
            /\ obs.before[i] = "update_trailing_stops"
            /\ obs.before[j] = "check_exit_signals"

-----------------------------------------------------------------------------
(* SpecSchedulers: the loop of every scheduler, single-strategy or         *)
(* multi-strategy, with the shutdown signal.                               *)

SchedulersInit == Init \/ MultiInit

SchedulersNext ==
    \/ NotTradingTime \/ NoMarketData \/ MarketData
    \/ TrailStep \/ ExitStep \/ EntryStep \/ Sleep
    \/ MultiNoData \/ MultiData \/ MultiTurn \/ MultiSleep
    \/ SignalHandler \/ LoopExit

SpecSchedulers == SchedulersInit /\ [][SchedulersNext]_vars

\* C12: in a pass of any scheduler, the signal of each strategy is evaluated
\* at most once and place_market_order is called at most once for it
C12_OneSubmissionPerStrategyPerTick ==
    \A n \in DOMAIN hist.evaluated :
        /\ hist.evaluated[n] <= 1
        /\ hist.submitted[n] <= hist.evaluated[n]

\* a strategy of a multi-strategy scheduler submitted an order in a pass
\* after the first, once the calls of the pass before were counted
C12_Witness ==
    /\ ticks >= 1
    /\ obs.op = "strategy_turn"
    /\ hist.evaluated[obs.name] = 1
    /\ hist.submitted[obs.name] = 1

\* C13: in a multi-strategy scheduler, a strategy below its cap that emits a
\* signal while the account permits trading, the global cap is not reached
\* and no loss or drawdown limit is breached passes the risk gate, and one
\* market order tagged with its name is submitted to the venue
C13_SignalBelowCapIsSubmitted ==
    (obs.op = "strategy_turn" /\ obs.permits)
        => /\ obs.outcome \in {"accepted", "rejected"}
           /\ hist.submitted[obs.name] = 1
           /\ StartsWith(obs.tag, obs.name)

\* C14: a strategy that owns max_positions open positions or more (the
\* positions on the venue whose comment starts with its name) is passed
\* over in the entry scan: its get_signal is not called in the pass, no
\* order is submitted for it and its last_signal_time stays as it was,
\* whatever the window shows
C14_AtCapIsSkipped ==
    (obs.op = "strategy_turn" /\ obs.owned >= StrategyMaxPositions(bot, obs.name))
        => /\ obs.outcome = "at_cap"
           /\ hist.evaluated[obs.name] = 0
           /\ hist.submitted[obs.name] = 0
           /\ ~obs.stamped

\* what the schedulers do keep: a strategy of which the position query of
\* the pass lists max_positions owned positions or more is passed over
ListedAtCapIsSkipped ==
    (obs.op = "strategy_turn" /\ obs.capped)
        => /\ obs.outcome = "at_cap"
           /\ hist.evaluated[obs.name] = 0
           /\ hist.submitted[obs.name] = 0
           /\ ~obs.stamped

\* C15: check_trading_allowed answers False whenever the account information
\* is unavailable, the account disallows trading, the positions open on the
\* account are max_positions or more, the loss is balance * max_daily_loss
\* or more, or balance - equity is balance * max_drawdown or more; it
\* answers True when none of these holds and every query of the venue
\* succeeds
C15_GateAnswer ==
    obs.op = "check_trading_allowed" =>
        LET a == obs.info
            blocked ==
                \/ a = NoInfo
                \/ ~a.trade_allowed
                \/ obs.open >= max_positions
                \/ a.profit < 0 /\ RLe(RMul(RR(a.balance), max_daily_loss), RR(0 - a.profit))
                \/ RLe(RMul(RR(a.balance), max_drawdown), RR(a.balance - a.equity))
        IN  /\ blocked => ~obs.allowed
            /\ (~blocked /\ obs.listed) => obs.allowed

\* what the gate does keep: the same with the position cap applied to the
\* positions get_positions() lists, when it lists them
GateAnswerOnListedPositions ==
    obs.op = "check_trading_allowed" =>
        LET a == obs.info
            blocked ==
                \/ a = NoInfo
                \/ ~a.trade_allowed
                \/ obs.listed /\ obs.open >= max_positions
                \/ a.profit < 0 /\ RLe(RMul(RR(a.balance), max_daily_loss), RR(0 - a.profit))
                \/ RLe(RMul(RR(a.balance), max_drawdown), RR(a.balance - a.equity))
        IN  /\ blocked => ~obs.allowed
            /\ (~blocked /\ obs.listed) => obs.allowed

-----------------------------------------------------------------------------
(* SpecBreach: TradingBot.run_main_loop on an account that is in breach of *)
(* a risk limit, or not, from the start of the session.                    *)

\* no breach; the daily loss reached; the drawdown reached by costs booked
\* into equity alone; trading switched off
BreachAccounts ==
    { AccountInfo(GateBalance, GateBalance, 0, GateBalance, 100, TRUE),
      AccountInfo(GateBalance, GateBalance - 500, -500, GateBalance, 100, TRUE),
      AccountInfo(GateBalance, GateBalance - 1000, -400, GateBalance, 100, TRUE),
      AccountInfo(GateBalance, GateBalance, 0, GateBalance, 100, FALSE) }

BreachInit ==
    /\ positions \in {StartPositions(n) : n \in {0, max_positions}}
    /\ nextTicket = max_positions + 1
    /\ account \in BreachAccounts
    /\ price = RR(2000)
    /\ now = StartTime
    /\ ticks = 0
    /\ bot = "single"
    /\ running = TRUE
    /\ pc = "loop"
    /\ window = Window(StartTime, "flat")
    /\ last_signal_time = [n \in {"ema_crossover"} |-> InitialSignalTime(n)]
    /\ max_drawdown_reached = FALSE
    /\ obs = [op |-> "none"]
    /\ hist = [last_accept |-> NoneTime, last_attempt |-> NoneTime,
               scanned |-> <<>>, closed |-> {}, done |-> <<>>, venue_closes |-> 0,
               evaluated |-> NoCalls({"ema_crossover"}),
               submitted |-> NoCalls({"ema_crossover"})]

BreachNext ==
    \/ NotTradingTime \/ NoMarketData \/ MarketData
    \/ TrailStep \/ ExitStep \/ EntryStep \/ Sleep
    \/ SignalHandler \/ LoopExit

SpecBreach == BreachInit /\ [][BreachNext]_vars

\* C16: in a pass of the single-strategy scheduler in which
\* check_trading_allowed answers False, no entry order is submitted and the
\* entry check leaves every position as it is, and the trailing-stop pass and
\* the exit scan of the pass have run
C16_BreachBlocksEntriesOnly ==
    (obs.op = "check_entry_signals" /\ obs.breach)
        => /\ obs.outcome = "not_allowed"
           /\ obs.order = NoInfo
           /\ hist.submitted["ema_crossover"] = 0
           /\ obs.kept
           /\ obs.done = <<"update_trailing_stops", "check_exit_signals",
                           "check_entry_signals">>

\* with the daily loss reached, the exit scan of a pass closed positions and
\* the entry check of the pass was refused for the loss
C16_Witness ==
    /\ obs.op = "check_entry_signals"
    /\ obs.breach /\ obs.why = "daily_loss"
    /\ obs.closed # {}

-----------------------------------------------------------------------------
(* SpecValidate: validate_trade on every kind of refusal, the faults of    *)
(* a venue that reports a zero lot step or a zero leverage among them.     *)

ValidateAccounts ==
    { AccountInfo(GateBalance, GateBalance, 0, fm, lev, ta) :
        fm \in {0, 1, 333, GateBalance}, lev \in {0, 1, 100}, ta \in BOOLEAN }
    \cup {NoInfo}
ValidateSymbols == SizeSymbols \cup {[XAUUSD EXCEPT !.lot_step = Zero]}

ValidateInit ==
    /\ obs \in { [op |-> "inputs", account_info |-> a, symbol_info |-> s,
                  entry_price |-> RR(2000), stop_loss |-> st, take_profit |-> RR(2020),
                  volume |-> SizeVolume(s, k, m), size |-> Zero,
                  validation |-> NoValidation, size_err |-> 0, margin_err |-> 0] :
                 a \in ValidateAccounts, s \in ValidateSymbols, st \in SizeStops,
                 k \in 0..MaxQuarterSteps, m \in BOOLEAN }
    /\ positions = <<>>
    /\ nextTicket = 1
    /\ account = obs.account_info
    /\ price = 2000
    /\ now = 0
    /\ ticks = 0
    /\ bot = "none"
    /\ running = FALSE
    /\ pc = "off"
    /\ window = NoInfo
    /\ last_signal_time = <<>>
    /\ max_drawdown_reached = FALSE
    /\ hist = HistInit

SpecValidate == ValidateInit /\ [][ValidateCall]_vars

\* C17: validate_trade answers valid = False, and then with an error, exactly
\* when trading is not allowed, the symbol is unknown or not tradeable, the
\* margin estimated for the adjusted volume exceeds the free margin, or a
\* fault occurs inside; a volume adjustment or a stop or target too close is
\* a warning and leaves valid = True
C17_ErrorsRefuseWarningsDoNot ==
    obs.op = "validate_trade" =>
        LET v == obs.validation
            a == obs.account_info
            s == obs.symbol_info
            not_allowed == a = NoInfo \/ ~a.trade_allowed
            no_symbol   == s = NoInfo \/ ~s.trade_allowed
            fault       == s.lot_step = Zero \/ a.leverage = 0
            \* the double of the estimate lies above the free margin
            margin_short ==
                FLt(RR(a.free_margin),
                    RDiv(RMul(v.adjusted_volume, RR(s.contract_size)), RR(a.leverage)),
                    -obs.margin_err)
            refused == not_allowed \/ no_symbol \/ fault \/ margin_short
        IN  /\ v.valid <=> ~refused
            /\ v.valid <=> v.errors = <<>>
            /\ \A i \in DOMAIN v.errors :
                  v.errors[i] \in {"trading_not_allowed", "invalid_symbol",
                                   "symbol_not_tradeable", "validation_error",
                                   "insufficient_margin"}

\* a trade found valid with its volume re-stepped and its stop too close
C17_Witness ==
    /\ obs.op = "validate_trade"
    /\ obs.validation.valid
    /\ \E i, j \in DOMAIN obs.validation.warnings :
          /\ obs.validation.warnings[i] = "volume_to_lot_step"
          /\ obs.validation.warnings[j] = "sl_too_close"

-----------------------------------------------------------------------------
(* SpecShutdown: TradingBot.run_main_loop and the shutdown signal; the     *)
(* loop is a thread that keeps running, so each of its steps is taken in   *)
(* the end when it stays possible.  The session is followed from its last  *)
(* sleep but one.                                                          *)

ShutdownInit ==
    /\ positions \in {StartPositions(n) : n \in {0, max_positions}}
    /\ nextTicket = max_positions + 1
    /\ account = AccountInfo(GateBalance, GateBalance, 0, GateBalance, 100, TRUE)
    /\ price = RR(2000)
    /\ now = StartTime
    /\ ticks = MaxSleeps - 1
    /\ bot = "single"
    /\ running = TRUE
    /\ pc = "loop"
    /\ window = Window(StartTime, "flat")
    /\ last_signal_time = [n \in {"ema_crossover"} |-> InitialSignalTime(n)]
    /\ max_drawdown_reached = FALSE
    /\ obs = [op |-> "none"]
    /\ hist = [last_accept |-> NoneTime, last_attempt |-> NoneTime,
               scanned |-> <<>>, closed |-> {}, done |-> <<>>, venue_closes |-> 0,
               evaluated |-> NoCalls({"ema_crossover"}),
               submitted |-> NoCalls({"ema_crossover"}),
               signalled |-> "no", signal_time |-> NoneTime, stops |-> 0]

LoopSteps ==
    \/ NotTradingTime \/ NoMarketData \/ MarketData
    \/ TrailStep \/ ExitStep \/ EntryStep \/ Sleep
    \/ LoopExit

ShutdownNext == LoopSteps \/ SignalHandler

LoopFairness ==
    /\ WF_vars(NotTradingTime) /\ WF_vars(NoMarketData) /\ WF_vars(MarketData)
    /\ WF_vars(TrailStep) /\ WF_vars(ExitStep) /\ WF_vars(EntryStep)
    /\ WF_vars(Sleep) /\ WF_vars(LoopExit)

SpecShutdown == ShutdownInit /\ [][ShutdownNext]_vars /\ LoopFairness

\* C18: once the shutdown signal has cleared the running flag, the pass under
\* way is carried through (the entry check and the sleep of a pass that had
\* reached its trailing-stop pass still come), no further pass starts, no
\* order, close or stop modification follows stop(), and stop() runs in the
\* end, once
C18_CooperativeShutdown ==
    /\ [](hist.stops <= 1)
    /\ ~running ~> (pc = "off" /\ hist.stops = 1)
    /\ (hist.signalled = "trail" /\ pc = "trail") ~> (~running /\ pc = "entry")
    /\ (hist.signalled = "trail" /\ pc = "entry") ~> (~running /\ pc = "sleep")
    /\ [][(~running /\ pc = "loop") => pc' = "off"]_vars
    /\ [][pc = "off" => UNCHANGED <<positions, nextTicket, pc>>]_vars

\* the signal came while the trailing-stop pass was about to run, the entry
\* check of that pass still opened a position, and stop() has run
C18_Witness ==
    /\ hist.signalled = "trail"
    /\ hist.last_accept = hist.signal_time
    /\ pc = "off" /\ hist.stops = 1

-----------------------------------------------------------------------------
(* SpecFaults: the loops of the schedulers with exceptions raised in a     *)
(* pass, by the venue's library or by the console.                         *)

\* run_main_loop: an exception raised anywhere in the pass is caught by the
\* "except Exception" inside the while loop, which logs it and sleeps
TickFault ==
    /\ bot = "single" /\ pc \in {"loop", "trail", "exit", "entry"}
    /\ pc = "loop" => running
    /\ pc' = "sleep"
    /\ obs' = [op |-> "fault", at |-> pc, running |-> running]
    /\ hist' = [hist EXCEPT !.done = <<>>, !.closed = {}, !.scanned = <<>>]
    /\ UNCHANGED <<bot, venueVars, clockVars, running, window, last_signal_time,
                   max_drawdown_reached>>

\* a multi-strategy loop: an exception raised by get_market_data (called
\* outside any try of the pass) or by the status printing reaches the
\* "except Exception" around the whole while loop; "finally" runs stop(),
\* which clears the running flag
MultiFault ==
    /\ bot \in Bots /\ pc \in {"loop", "sleep"}
    /\ pc = "loop" => running
    /\ pc' = "off"
    /\ running' = FALSE
    /\ obs' = [op |-> "fault", at |-> pc, running |-> running]
    /\ hist' = NoteStop(hist)
    /\ UNCHANGED <<bot, venueVars, clockVars, window, last_signal_time,
                   max_drawdown_reached>>

FaultsNext == SchedulersNext \/ TickFault \/ MultiFault

SpecFaults == SchedulersInit /\ [][FaultsNext]_vars

\* C19: in every scheduler, an exception raised in a pass while the running
\* flag is set does not end the loop: the pass is given up and the loop goes
\* on to its sleep and its next pass
C19_FaultNeverEndsLoop ==
    (obs.op = "fault" /\ obs.running) => pc # "off"

\* C20: a pass whose bar fetch answers nothing, or fewer bars than needed,
\* has no other step: no trailing-stop pass, exit scan or entry check runs in
\* it, no strategy is given its turn, no position is opened, closed or
\* modified, and the loop sleeps and goes round to its next pass
C20_NoDataSkipsThePass ==
    /\ [](hist.done # <<>> /\ hist.done[1] = "no_market_data"
            => /\ hist.done = <<"no_market_data">>
               /\ pc = "sleep"
               /\ \A n \in DOMAIN hist.evaluated :
                     hist.evaluated[n] = 0 /\ hist.submitted[n] = 0)
    /\ [][hist'.done = <<"no_market_data">> => UNCHANGED <<positions, nextTicket>>]_vars
    /\ [][hist.done = <<"no_market_data">> =>
              /\ UNCHANGED <<positions, nextTicket>>
              /\ pc' \in {"sleep", "loop"}]_vars

\* a pass after the first finds no data while positions are open
C20_Witness ==
    /\ hist.done = <<"no_market_data">>
    /\ pc = "sleep" /\ ticks >= 1
    /\ positions # <<>>

\* the venue gave no result, or a result whose return code is not DONE
Refused(answer) ==
    \/ answer = NoInfo
    \/ "retcode" \in DOMAIN answer /\ answer.retcode # TRADE_RETCODE_DONE

\* C21: when the venue answers an order of a multi-strategy scheduler with
\* no result or with a return code other than DONE, place_market_order
\* returns None, the turn adds one to failed_trades and nothing to trades and
\* successful_trades, no position is opened, and the order of that turn is
\* the only one sent for the strategy in the pass
C21_RefusedOrderCountsOnceAsFailed ==
    (obs.op = "strategy_turn" /\ Refused(obs.answer)) =>
        /\ obs.returned_none
        /\ obs.outcome = "rejected"
        /\ obs.stats = [trades |-> 0, successful_trades |-> 0, failed_trades |-> 1]
        /\ obs.kept
        /\ hist.submitted[obs.name] = 1

\* the venue answers an order of a strategy with a return code other than DONE
C21_Witness ==
    /\ obs.op = "strategy_turn"
    /\ obs.answer = [retcode |-> TRADE_RETCODE_DONE_PARTIAL]
    /\ obs.tag # <<>>
    /\ obs.stats.failed_trades = 1

-----------------------------------------------------------------------------
(* SpecBars: the length of the window each scheduler hands to get_signal.  *)
(* window is [bars |-> n], the number of bars get_market_data answered.    *)

\* the most bars a fetch answers in this specification
MaxBars == 60

\* the schedulers: TradingBot, HFTTradingBot, and the multi-strategy loops
Schedulers == Bots \cup {"single", "hft", "optimized"}

\* the enabled strategies in the order the scheduler's loop takes them
StrategyOrder(b) ==
    CASE b = "single"    -> <<"ema_crossover">>
      [] b = "hft"       -> <<"hft_ema">>
      [] b = "optimized" -> <<"aggressive_scalp", "hft_ema", "momentum_breakout",
                              "mean_reversion", "ema_crossover">>
      [] OTHER           -> Strategies(b)

Max2(a, b) == IF a < b THEN b ELSE a

\* parameters['ema_period'], ['atr_period'], ['slow_ema'] of the instance
ema_period(b) == IF b = "single" THEN 5 ELSE 8
atr_period(b) == 14
slow_ema(b)   == IF b = "hft" THEN 8 ELSE 7
\* SimpleEMAStrategy.slow_period of the mac scheduler
slow_period == 15

\* strategy.get_minimum_bars(); SimpleEMAStrategy has only its length test
get_minimum_bars(b, name) ==
    CASE name = "ema_crossover"     -> Max2(50, Max2(ema_period(b) * 3, atr_period(b) * 2))
      [] name = "hft_ema"           -> Max2(20, slow_ema(b) * 2)
      [] name = "aggressive_scalp"  -> 10
      [] name = "momentum_breakout" -> 20
      [] name = "mean_reversion"    -> 30
      [] name = "simple_ema"        -> slow_period + 5

\* the length below which the scheduler skips the pass
RequiredBars(b) ==
    CASE b \in {"single", "hft"} -> get_minimum_bars(b, StrategyOrder(b)[1])
      [] b = "multi"             -> 50
      [] OTHER                   -> 30

\* the length test get_signal opens with: below it the answer is None
SignalLengthTest(b, name) ==
    CASE name = "aggressive_scalp"  -> 10
      [] name = "momentum_breakout" -> 20
      [] name = "mean_reversion"    -> 30
      [] name = "simple_ema"        -> slow_period + 5
      [] OTHER                      -> get_minimum_bars(b, name)

BarsInit ==
    /\ bot \in Schedulers
    /\ positions = <<>> /\ nextTicket = 1
    /\ account = AccountInfo(GateBalance, GateBalance, 0, GateBalance, 100, TRUE)
    /\ price = RR(2000)
    /\ now = StartTime /\ ticks = 0
    /\ running = TRUE
    /\ pc = "loop"
    /\ window = [bars |-> 0]
    /\ last_signal_time = [n \in {StrategyOrder(bot)[i] : i \in 1..Len(StrategyOrder(bot))} |-> NoneTime]
    /\ max_drawdown_reached = FALSE
    /\ obs = [op |-> "none"]
    /\ hist = [done |-> <<>>]

\* get_market_data answers n bars; too few and the pass is skipped
BarsFetch ==
    /\ pc = "loop"
    /\ \E n \in 0..MaxBars :
          /\ window' = [bars |-> n]
          /\ pc' = IF n < RequiredBars(bot) THEN "sleep" ELSE StrategyOrder(bot)[1]
          /\ obs' = [op |-> "get_market_data", bars |-> n]
    /\ UNCHANGED <<bot, venueVars, clockVars, running, last_signal_time,
                   max_drawdown_reached, hist>>

\* the turn of strategy pc: at its cap it is passed over, else get_signal
\* is called with the window of the pass
BarsTurn ==
    /\ \E i \in 1..Len(StrategyOrder(bot)) :
          /\ pc = StrategyOrder(bot)[i]
          /\ pc' = IF i < Len(StrategyOrder(bot)) THEN StrategyOrder(bot)[i + 1] ELSE "sleep"
    /\ \E at_cap \in IF bot \in {"single", "hft"} THEN {FALSE} ELSE BOOLEAN :
          obs' = IF at_cap THEN [op |-> "at_cap", name |-> pc]
                 ELSE [op |-> "get_signal", name |-> pc, bars |-> window.bars,
                       minimum |-> get_minimum_bars(bot, pc),
                       none_for_length |-> window.bars < SignalLengthTest(bot, pc)]
    /\ UNCHANGED <<bot, venueVars, clockVars, running, window, last_signal_time,
                   max_drawdown_reached, hist>>

BarsSleep ==
    /\ pc = "sleep"
    /\ pc' = "loop"
    /\ obs' = [op |-> "none"]
    /\ UNCHANGED <<bot, venueVars, clockVars, running, window, last_signal_time,
                   max_drawdown_reached, hist>>

BarsNext == BarsFetch \/ BarsTurn \/ BarsSleep

SpecBars == BarsInit /\ [][BarsNext]_vars

\* C22: no scheduler calls a strategy's get_signal with a window of fewer
\* bars than the strategy's get_minimum_bars(), and a strategy given such a
\* window answers None
C22_NoSignalOnShortWindow ==
    obs.op = "get_signal" =>
        /\ obs.bars >= obs.minimum
        /\ (obs.bars < obs.minimum => obs.none_for_length)

\* config['priority'] of the strategies of the production scheduler
StrategyPriority(name) == IF name = "aggressive_scalp" THEN 1 ELSE 2

\* C23: in a pass of the production scheduler the enabled strategies have
\* their turns in ascending order of priority, each at most once, and a
\* strategy that signals below its cap while trading is permitted submits its
\* order in its turn, before the strategies of lower priority have theirs
C23_PriorityOrderSubmits ==
    (bot = "production" /\ obs.op = "strategy_turn") =>
        /\ Len(hist.done) - 1 = StrategyPriority(obs.name)
        /\ \A n \in DOMAIN hist.evaluated : hist.evaluated[n] <= 1
        /\ (obs.permits => hist.submitted[obs.name] = 1)

-----------------------------------------------------------------------------
(* SpecOwnership: whose the positions on the account are.  The venue holds *)
(* positions that carry the comments the scheduler gives its orders: those *)
(* the scheduler opens, and those that come onto the account from another  *)
(* session; get_strategy_positions is asked between the venue's steps.     *)

\* the positions that come onto the account in this specification
MaxOwned == 3

\* the characters of the words the comments are made of
Chars(word) ==
    CASE word = "ema_crossover" -> <<"e", "m", "a", "_", "c", "r", "o", "s", "s", "o", "v", "e", "r">>
      [] word = "aggressive_scalp" -> <<"a", "g", "g", "r", "e", "s", "s", "i", "v", "e", "_", "s", "c", "a", "l", "p">>
      [] word = "momentum_breakout" -> <<"m", "o", "m", "e", "n", "t", "u", "m", "_", "b", "r", "e", "a", "k", "o", "u", "t">>
      [] word = "mean_reversion" -> <<"m", "e", "a", "n", "_", "r", "e", "v", "e", "r", "s", "i", "o", "n">>
      [] word = "hft_ema" -> <<"h", "f", "t", "_", "e", "m", "a">>
      [] word = "simple_ema" -> <<"s", "i", "m", "p", "l", "e", "_", "e", "m", "a">>
      [] word = "BUY" -> <<"B", "U", "Y">>
      [] word = "SELL" -> <<"S", "E", "L", "L">>
      [] word = "prod" -> <<"p", "r", "o", "d">>
      [] word = "mac" -> <<"m", "a", "c">>

\* f"{strategy_name}_{signal}", f"{strategy_name}_{signal}_prod", ..._mac:
\* the characters of the comment whose parts are joined with "_"
RECURSIVE CommentText(_)
CommentText(parts) ==
    IF parts = <<>> THEN <<>>
    ELSE IF Len(parts) = 1 THEN Chars(parts[1])
    ELSE Chars(parts[1]) \o <<"_">> \o CommentText(Tail(parts))

\* str.startswith
startswith(text, prefix) ==
    Len(prefix) <= Len(text) /\ SubSeq(text, 1, Len(prefix)) = prefix

\* get_strategy_positions on the characters of the comments: the tickets of
\* the listed positions whose comment starts with the strategy's name
StrategyTickets(answer, name) ==
    IF answer = NoInfo THEN {}
    ELSE {t \in DOMAIN answer.list :
            startswith(CommentText(answer.list[t].comment), Chars(name))}

OwnershipInit ==
    /\ bot \in Bots
    /\ positions = <<>> /\ nextTicket = 1
    /\ account = AccountInfo(GateBalance, GateBalance, 0, GateBalance, 100, TRUE)
    /\ price = RR(2000)
    /\ now = StartTime /\ ticks = 0
    /\ running = TRUE
    /\ pc = "loop"
    /\ window = Window(StartTime, "flat")
    /\ last_signal_time = [n \in StrategySet(bot) |-> InitialSignalTime(n)]
    /\ max_drawdown_reached = FALSE
    /\ obs = [op |-> "none"]
    /\ hist = [opened_for |-> <<>>]

\* the venue carries out the order the execute function of the scheduler
\* placed for strategy name: the risk check has let it through (that of
\* "multi" and "production" never does), the stops are the strategy's
OwnershipOpen ==
    /\ nextTicket <= MaxOwned
    /\ \E name \in StrategySet(bot), signal \in {"BUY", "SELL"},
          listed_again \in Listings(bot, positions) :
          /\ StrategyRiskCheck(bot, account, listed_again, name,
                               StrategyMaxPositions(bot, name))
          /\ positions' = [t \in DOMAIN positions \cup {nextTicket} |->
                             IF t = nextTicket
                             THEN Position(signal, MacStopLoss(signal, price),
                                           MacTakeProfit(signal, price), <<1, 100>>,
                                           OrderComment(bot, name, signal))
                             ELSE positions[t]]
          /\ hist' = [hist EXCEPT !.opened_for =
                         [t \in DOMAIN positions \cup {nextTicket} |->
                             IF t = nextTicket THEN name ELSE hist.opened_for[t]]]
    /\ nextTicket' = nextTicket + 1
    /\ obs' = [op |-> "none"]
    /\ UNCHANGED <<bot, account, price, clockVars, running, pc, window,
                   last_signal_time, max_drawdown_reached>>

\* a position with the comment the scheduler gives the orders of strategy
\* name comes onto the account from another session on the same account
OwnershipArrives ==
    /\ nextTicket <= MaxOwned
    /\ \E name \in StrategySet(bot), signal \in {"BUY", "SELL"} :
          /\ positions' = [t \in DOMAIN positions \cup {nextTicket} |->
                             IF t = nextTicket
                             THEN Position(signal, Zero, Zero, <<1, 100>>,
                                           OrderComment(bot, name, signal))
                             ELSE positions[t]]
          /\ hist' = [hist EXCEPT !.opened_for =
                         [t \in DOMAIN positions \cup {nextTicket} |->
                             IF t = nextTicket THEN name ELSE hist.opened_for[t]]]
    /\ nextTicket' = nextTicket + 1
    /\ obs' = [op |-> "none"]
    /\ UNCHANGED <<bot, account, price, clockVars, running, pc, window,
                   last_signal_time, max_drawdown_reached>>

\* the venue closes a position
OwnershipClose ==
    /\ \E c \in DOMAIN positions :
          /\ positions' = [t \in DOMAIN positions \ {c} |-> positions[t]]
          /\ hist' = [hist EXCEPT !.opened_for =
                         [t \in DOMAIN positions \ {c} |-> hist.opened_for[t]]]
    /\ obs' = [op |-> "none"]
    /\ UNCHANGED <<nextTicket, bot, account, price, clockVars, running, pc, window,
                   last_signal_time, max_drawdown_reached>>

\* get_strategy_positions(name): get_positions() is asked, and may fail
OwnershipQuery ==
    /\ \E name \in StrategySet(bot), listed \in Listings(bot, positions) :
          obs' = [op |-> "get_strategy_positions", name |-> name,
                  listed |-> listed = [list |-> positions],
                  open |-> IF listed = NoInfo THEN {} ELSE DOMAIN listed.list,
                  owned |-> StrategyTickets(listed, name),
                  by_parts |-> get_strategy_positions(listed, name)]
    /\ UNCHANGED <<bot, venueVars, clockVars, running, pc, window,
                   last_signal_time, max_drawdown_reached, hist>>

OwnershipNext == OwnershipOpen \/ OwnershipArrives \/ OwnershipClose \/ OwnershipQuery

SpecOwnership == OwnershipInit /\ [][OwnershipNext]_vars

\* C24: every query get_strategy_positions(S) answers exactly the positions
\* open on the venue at the time of the query that were opened for S: each
\* position is owned by the strategy whose order opened it and by no other
\* strategy of the scheduler
C24_OwnershipIsPartitionByTag ==
    obs.op = "get_strategy_positions" =>
        /\ obs.owned = {t \in DOMAIN positions : hist.opened_for[t] = obs.name}
        /\ obs.by_parts = obs.owned

\* what the query does keep: when the venue lists the positions, the answer
\* is the listed positions opened for S
OwnershipOfListedPositions ==
    (obs.op = "get_strategy_positions" /\ obs.listed) =>
        /\ obs.owned = {t \in DOMAIN positions : hist.opened_for[t] = obs.name}
        /\ obs.by_parts = obs.owned

-----------------------------------------------------------------------------
(* SpecCross: EMACrossoverStrategy.get_signal on the closes of its window. *)
(* The series is flat at BaseClose before the bars of window.closes, so a  *)
(* window of fifty bars ending at any of them starts on the flat stretch.  *)

\* the bars that follow the flat stretch
MaxBarsAfter == 3

BaseClose == RR(2000)

\* the closes a new bar may have
CloseLevels == {RAdd(BaseClose, RR(d)) : d \in -1..2}

\* the window of get_minimum_bars() bars that ends at bar j of tail
WindowAt(tail, j) ==
    LET size == get_minimum_bars("single", "ema_crossover")
    IN  SubSeq([i \in 1..size |-> IF i <= size - j THEN BaseClose
                                   ELSE tail[i - (size - j)]], 1, size)

\* data.ewm(span=period, adjust=False).mean(): the first value is the first
\* close, each later one alpha * close + (1 - alpha) * the value before.
\* done: the values of the bars before bar i
RECURSIVE ewm_mean(_, _, _, _)
ewm_mean(closes, period, i, done) ==
    IF i > Len(closes) THEN done
    ELSE IF i = 1 THEN ewm_mean(closes, period, 2, <<closes[1]>>)
    ELSE ewm_mean(closes, period, i + 1,
                  Append(done, RAdd(RMul(<<2, period + 1>>, closes[i]),
                                    RMul(RSub(RR(1), <<2, period + 1>>), done[i - 1]))))

\* BaseStrategy._calculate_ema: the EMA of every bar of the window
_calculate_ema(closes, period) == ewm_mean(closes, period, 1, <<>>)

\* a crossover test that looks one bar too early
CrossOfEarlierBars(closes, period) ==
    LET ema == _calculate_ema(closes, period)
        n   == Len(closes) - 1
    IN  IF RLe(closes[n - 1], ema[n - 1]) /\ RLt(ema[n], closes[n]) THEN "up"
        ELSE IF RLe(ema[n - 1], closes[n - 1]) /\ RLt(closes[n], ema[n]) THEN "down"
        ELSE "flat"

\* the crossover test of get_signal on previous_candle and last_candle
CrossOf(closes, period) ==
    LET ema == _calculate_ema(closes, period)
        n   == Len(closes)
    IN  IF RLe(closes[n - 1], ema[n - 1]) /\ RLt(ema[n], closes[n]) THEN "up"
        ELSE IF RLe(ema[n - 1], closes[n - 1]) /\ RLt(closes[n], ema[n]) THEN "down"
        ELSE "flat"

\* _check_trend_confirmation: the last confirmation_candles + 1 closes rise
\* (BUY) or fall (SELL) without a step back
_check_trend_confirmation(closes, signal, confirmation_candles) ==
    LET n == Len(closes)
    IN  /\ n >= confirmation_candles + 1
        /\ \A i \in (n - confirmation_candles + 1)..n :
              IF signal = "BUY" THEN RLe(closes[i - 1], closes[i])
              ELSE RLe(closes[i], closes[i - 1])

\* EMACrossoverStrategy.get_signal on the closes of a window.  atr_ok: the
\* last ATR is not below min_atr_filter
EMACrossover_signal_of(closes, atr_ok, last, current_time, confirmation_candles) ==
    IF Len(closes) < get_minimum_bars("single", "ema_crossover") THEN "None"
    ELSE IF ~atr_ok THEN "None"
    ELSE LET signal == CrossSignal(Window(current_time, CrossOf(closes, ema_period("single"))))
         IN  IF signal = "None" THEN "None"
             ELSE IF confirmation_candles > 1
                     /\ ~_check_trend_confirmation(closes, signal, confirmation_candles)
             THEN "None"
             ELSE IF validate_signal(signal, last, current_time) THEN signal ELSE "None"

\* where bar j of the series closes against the EMA of the window ending at
\* bar n; bar 0 is the last bar of the flat stretch
CloseAgainstEMA(tail, j, n) ==
    LET w    == WindowAt(tail, n)
        ema  == _calculate_ema(w, ema_period("single"))
        i    == Len(w) - (n - j)
    IN  IF RLt(w[i], ema[i]) THEN "below" ELSE IF RLt(ema[i], w[i]) THEN "above" ELSE "on"

CrossInit ==
    /\ bot = "single"
    /\ positions = <<>> /\ nextTicket = 1
    /\ account = AccountInfo(GateBalance, GateBalance, 0, GateBalance, 100, TRUE)
    /\ price = BaseClose
    /\ now = StartTime /\ ticks = 0
    /\ running = TRUE
    /\ pc = "fetch"
    /\ window = [closes |-> <<>>]
    /\ last_signal_time = [n \in {"ema_crossover"} |-> InitialSignalTime(n)]
    /\ max_drawdown_reached = FALSE
    /\ obs = [op |-> "none"]
    /\ \E c \in {0, 1} : hist = [confirmation_candles |-> c, signals |-> <<>>]

\* a bar closes and the window moves on by one bar
CrossNewBar ==
    /\ pc = "fetch" /\ Len(window.closes) < MaxBarsAfter
    /\ \E c \in CloseLevels : window' = [closes |-> Append(window.closes, c)]
    /\ pc' = "signal"
    /\ UNCHANGED <<bot, venueVars, clockVars, running, last_signal_time,
                   max_drawdown_reached, obs, hist>>

\* get_signal on the window that ends at the newest bar
CrossGetSignal ==
    /\ pc = "signal"
    /\ \E atr_ok \in BOOLEAN, last \in {NoneTime, now - 1} :
          LET n      == Len(window.closes)
              answer == EMACrossover_signal_of(WindowAt(window.closes, n), atr_ok, last,
                                               now, hist.confirmation_candles)
              passed == atr_ok /\ ~_is_signal_too_recent(last, now)
          IN  /\ obs' = [op |-> "get_signal", answer |-> answer, passed |-> passed]
              /\ hist' = [hist EXCEPT !.signals =
                             Append(@, [signal |-> answer, passed |-> passed])]
    /\ pc' = "fetch"
    /\ UNCHANGED <<bot, venueVars, clockVars, running, window, last_signal_time,
                   max_drawdown_reached>>

CrossNext == CrossNewBar \/ CrossGetSignal

SpecCross == CrossInit /\ [][CrossNext]_vars

\* the answers for the windows ending at bars n - 1 and n were both given
\* with the volatility filter and the cooldown passed
BothPassed(n) ==
    /\ n >= 2 /\ n <= Len(hist.signals)
    /\ hist.signals[n].passed /\ hist.signals[n - 1].passed

\* the answer for the window ending at bar n fits its last two bars: BUY
\* only if the bar before the last closes at or below its EMA and the last
\* above its EMA, SELL only the other way round
AnswerFitsLastTwoBars(n) ==
    LET before == CloseAgainstEMA(window.closes, n - 1, n)
        last   == CloseAgainstEMA(window.closes, n, n)
    IN  /\ hist.signals[n].signal = "BUY"  => before \in {"below", "on"} /\ last = "above"
        /\ hist.signals[n].signal = "SELL" => before \in {"above", "on"} /\ last = "below"

\* C25 as it stands: BUY is answered only for a window whose bar before the
\* last closes at or below its EMA and whose last bar closes above its EMA
\* (SELL the other way round), and whenever the series goes from below its
\* EMA at bar n - 1 to above it at bar n, the window ending at bar n is
\* answered BUY and the window ending at bar n - 1 None; n is the bar
\* get_signal has just been asked about
C25_CrossAtNNoneBefore ==
    (pc = "fetch" /\ hist.signals # <<>>) =>
        LET n == Len(hist.signals)
        IN  /\ AnswerFitsLastTwoBars(n)
            /\ (/\ BothPassed(n)
                /\ CloseAgainstEMA(window.closes, n - 1, n) = "below"
                /\ CloseAgainstEMA(window.closes, n, n) = "above"
                => /\ hist.signals[n].signal = "BUY"
                   /\ hist.signals[n - 1].signal = "None")

\* C25, amended: as above, where the bar before bar n - 1 closed below its
\* EMA too, so that the last two bars of the window ending at bar n - 1 hold
\* no crossing of their own
C25_CrossAtNNoneBeforeWithoutEarlierCross ==
    (pc = "fetch" /\ hist.signals # <<>>) =>
        LET n == Len(hist.signals)
        IN  /\ AnswerFitsLastTwoBars(n)
            /\ (/\ BothPassed(n)
                /\ CloseAgainstEMA(window.closes, n - 1, n) = "below"
                /\ CloseAgainstEMA(window.closes, n, n) = "above"
                /\ CloseAgainstEMA(window.closes, n - 2, n - 1) = "below"
                /\ CloseAgainstEMA(window.closes, n - 1, n - 1) = "below"
                => /\ hist.signals[n].signal = "BUY"
                   /\ hist.signals[n - 1].signal = "None")

\* two bars close below the EMA, the third above it: None, then BUY
C25_Witness ==
    /\ Len(hist.signals) = 3 /\ BothPassed(3)
    /\ CloseAgainstEMA(window.closes, 1, 2) = "below"
    /\ CloseAgainstEMA(window.closes, 2, 3) = "below"
    /\ CloseAgainstEMA(window.closes, 3, 3) = "above"
    /\ hist.signals[3].signal = "BUY"
    /\ hist.signals[2].signal = "None"

\* C26: calculate_position_size takes as raw size the risk amount, balance
\* times risk_per_trade, divided by the stop distance in price units times
\* the value of a price unit per lot (the contract size); the size it
\* answers is that raw size rounded to the lot step, clamped to the lot
\* bounds and capped by margin and by the risk multiple.  With a balance of
\* 10000, a stop 50 away and a contract size of 1 the raw size is 2
C26_RawSizeIsRiskOverStopValue ==
    (/\ obs.op = "calculate_position_size"
     /\ obs.account_info # NoInfo /\ obs.symbol_info # NoInfo
     /\ obs.entry_price # obs.stop_loss) =>
        LET a        == obs.account_info
            si       == obs.symbol_info
            risk     == RDiv(RR(a.balance), RR(100))
            distance == RAbs(RSub(obs.entry_price, obs.stop_loss))
            raw      == RDiv(risk, RMul(distance, RR(si.contract_size)))
            stepped  == RMul(RR(RoundDouble(RDiv(raw, si.lot_step), obs.size_err)),
                             si.lot_step)
            clamped  == RMax(si.minimum_lot, RMin(si.maximum_lot, stepped))
            half     == RDiv(RR(a.free_margin), RR(2))
            margin   == RDiv(RMul(clamped, RR(si.contract_size)), RR(a.leverage))
            fits     == RDiv(RMul(half, RR(a.leverage)), RR(si.contract_size))
            by_risk  == RDiv(RMul(risk, RR(10)), RR(si.contract_size))
        IN  /\ raw_position_size(FALSE, obs.entry_price, obs.stop_loss, a, si)
                  = Computed(raw)
            /\ obs.size = RMin(IF RLt(half, margin) THEN RMin(clamped, fits) ELSE clamped,
                               by_risk)
            /\ (a.balance = 10000 /\ distance = RR(50) /\ si.contract_size = 1
                   => raw = RR(2))

\* balance 10000, stop 50 below the entry, one unit a lot: the size is 2
C26_Witness ==
    /\ obs.op = "calculate_position_size"
    /\ obs.account_info # NoInfo /\ obs.symbol_info = WholeLots
    /\ obs.account_info.balance = 10000
    /\ RSub(obs.entry_price, obs.stop_loss) = RR(50)
    /\ obs.size = RR(2)

\* ---------------------------------------------------------------------
\* Stops of the strategies that size them by the ATR of the window
\* (ema_crossover, hft_ema in both its builds, momentum_breakout, rsi_divergence,
\* bollinger_scalp, stochastic_momentum, macd_signal_cross): SpecStops
\* ---------------------------------------------------------------------

\* bars of the window handed to get_stop_loss / get_take_profit
MaxStopBars == 20

Bar(high, low, close) == [high |-> high, low |-> low, close |-> close]

\* a bar without range, and a bar one unit high that closes at its high
BarShapes ==
    {Bar(BaseClose, BaseClose, BaseClose),
     Bar(RAdd(BaseClose, RR(1)), BaseClose, RAdd(BaseClose, RR(1)))}

EntryPrices == {BaseClose, RAdd(BaseClose, RR(1))}

\* a price returned, a NaN returned, and the IndexError of iloc[-1] on an
\* empty frame
Price(value) == [none |-> FALSE, isna |-> FALSE, value |-> value]
NaNPrice == [none |-> FALSE, isna |-> TRUE, value |-> Zero]
IndexError == [raised |-> TRUE]

\* row i of true_range: the largest of high - low, |high - previous close|
\* and |low - previous close|; max(axis=1) skips the NaN of the shifted
\* close in the first row
true_range(data, i) ==
    LET high_low == RSub(data[i].high, data[i].low)
    IN  IF i = 1 THEN high_low
        ELSE RMax(RMax(high_low, RAbs(RSub(data[i].high, data[i - 1].close))),
                  RAbs(RSub(data[i].low, data[i - 1].close)))

RECURSIVE SumOfRows(_, _, _, _)
SumOfRows(data, i, last, acc) ==
    IF i > last THEN acc
    ELSE SumOfRows(data, i + 1, last, RAdd(acc, true_range(data, i)))

\* BaseStrategy._calculate_atr(data, period).iloc[-1]: the mean of the last
\* period true ranges, NaN while the frame has fewer rows than the period
_calculate_atr(data, period) ==
    IF Len(data) = 0 THEN IndexError
    ELSE IF Len(data) < period THEN NaN
    ELSE Number(RDiv(SumOfRows(data, Len(data) - period + 1, Len(data), Zero),
                     RR(period)))

\* _find_recent_swing_low(data, lookback): the lowest low of the last
\* lookback rows, None on a frame of fewer than lookback + 2 rows
_find_recent_swing_low(data, lookback) ==
    IF Len(data) < lookback + 2 THEN NoInfo
    ELSE LET lows == {data[i].low : i \in (Len(data) - lookback + 1)..Len(data)}
         IN  Price(CHOOSE m \in lows : \A x \in lows : RLe(m, x))

\* _find_recent_swing_high(data, lookback)
_find_recent_swing_high(data, lookback) ==
    IF Len(data) < lookback + 2 THEN NoInfo
    ELSE LET highs == {data[i].high : i \in (Len(data) - lookback + 1)..Len(data)}
         IN  Price(CHOOSE m \in highs : \A x \in highs : RLe(x, m))

RECURSIVE SumOfCloseRows(_, _, _, _)
SumOfCloseRows(data, i, last, acc) ==
    IF i > last THEN acc
    ELSE SumOfCloseRows(data, i + 1, last, RAdd(acc, data[i].close))

\* _calculate_bollinger_bands(data['close'], period, std)['middle'].iloc[-1]:
\* the mean of the last period closes, NaN on a shorter frame
bb_middle(data, period) ==
    IF Len(data) < period THEN NaNPrice
    ELSE Price(RDiv(SumOfCloseRows(data, Len(data) - period + 1, Len(data), Zero),
                    RR(period)))

\* "hft_ema": the HFTEMAScalper the multi-strategy schedulers build, which
\* keeps the stop multipliers of the class; "hft_main": the one hft_main.py
\* builds on STRATEGY_SETTINGS['ema_crossover'] of config_hft
StopStrategies ==
    {"ema_crossover", "hft_ema", "hft_main", "momentum_breakout", "rsi_divergence",
     "bollinger_scalp", "stochastic_momentum", "macd_signal_cross"}

\* a strategy whose stop is the entry price less the ATR distance
PlainStop(period, stop_multiplier, profit_multiplier, stop_percentage, profit_percentage, rounds, handler_falls_back) ==
    [atr_period |-> period,
     stop_loss_atr_multiplier |-> stop_multiplier,
     take_profit_atr_multiplier |-> profit_multiplier,
     stop_percentage |-> stop_percentage, profit_percentage |-> profit_percentage,
     rounds |-> rounds, handler_falls_back |-> handler_falls_back,
     anchor |-> "none", lookback |-> 0, anchor_share |-> Zero]

\* a strategy whose stop is the nearer of the ATR stop and a price that
\* lies anchor_share of the ATR beyond an anchor: the swing of the last
\* lookback bars ("swing") or the middle band of the last lookback closes
\* ("middle")
AnchoredStop(stop_multiplier, profit_multiplier, stop_percentage, profit_percentage, anchor, lookback, anchor_share) ==
    [atr_period |-> 14,
     stop_loss_atr_multiplier |-> stop_multiplier,
     take_profit_atr_multiplier |-> profit_multiplier,
     stop_percentage |-> stop_percentage, profit_percentage |-> profit_percentage,
     rounds |-> TRUE, handler_falls_back |-> TRUE,
     anchor |-> anchor, lookback |-> lookback, anchor_share |-> anchor_share]

\* the parameters each strategy is built with, the percentages of its
\* fallback, whether it rounds the ATR price and what its handler answers
StopParameters(name) ==
    CASE name = "ema_crossover" ->
            PlainStop(14, stop_loss_atr_multiplier, take_profit_atr_multiplier,
                      stop_loss_percentage, take_profit_percentage, TRUE, TRUE)
      [] name = "hft_ema" ->
            PlainStop(10, <<4, 5>>, <<6, 5>>, <<5, 10000>>, <<1, 1000>>, TRUE, TRUE)
      [] name = "hft_main" ->
            PlainStop(10, RR(1), <<3, 2>>, <<5, 10000>>, <<1, 1000>>, TRUE, TRUE)
      [] name = "momentum_breakout" ->
            PlainStop(10, RR(1), RR(2), <<5, 10000>>, <<1, 1000>>, FALSE, FALSE)
      [] name = "rsi_divergence" ->
            AnchoredStop(RR(1), RR(2), <<15, 10000>>, <<3, 1000>>, "swing", 10, <<1, 2>>)
      [] name = "bollinger_scalp" ->
            AnchoredStop(RR(1), <<5, 2>>, <<2, 1000>>, <<4, 1000>>, "middle", 20, <<1, 2>>)
      [] name = "stochastic_momentum" ->
            AnchoredStop(RR(1), RR(2), <<15, 10000>>, <<3, 1000>>, "swing", 7, <<3, 10>>)
      [] name = "macd_signal_cross" ->
            AnchoredStop(<<6, 5>>, <<12, 5>>, <<2, 1000>>, <<4, 1000>>, "swing", 10, <<1, 2>>)

\* the price the stop is anchored to: None where the strategy has none or
\* finds none (`if recent_low:` also passes over a price of 0)
StopAnchor(p, data, signal) ==
    CASE p.anchor = "none"   -> NoInfo
      [] p.anchor = "middle" -> bb_middle(data, p.lookback)
      [] p.anchor = "swing"  ->
            LET swing == IF signal = "BUY" THEN _find_recent_swing_low(data, p.lookback)
                         ELSE _find_recent_swing_high(data, p.lookback)
            IN  IF swing # NoInfo /\ swing.value = Zero THEN NoInfo ELSE swing

\* the stop of a strategy before it is rounded, on an ATR that is a number
\* and not 0: max(anchored, atr_based) for BUY, min for SELL, which answer
\* their first argument when it is NaN
stop_before_rounding(p, data, signal, entry_price, current_atr) ==
    LET atr_based == atr_based_sl(signal, entry_price, current_atr,
                                  p.stop_loss_atr_multiplier)
        anchor    == StopAnchor(p, data, signal)
        share     == RMul(current_atr, p.anchor_share)
    IN  IF anchor = NoInfo THEN Price(atr_based)
        ELSE IF anchor.isna THEN NaNPrice
        ELSE IF signal = "BUY"
             THEN Price(RMax(RSub(anchor.value, share), atr_based))
             ELSE Price(RMin(RAdd(anchor.value, share), atr_based))

\* the body of get_stop_loss of a strategy once it has the ATR of the
\* frame; err: the rounding error of the price handed to round(, 5)
stop_loss_on(p, current_atr, data, signal, entry_price, err) ==
    LET fallback == Price(_get_percentage_stop_loss(entry_price, signal,
                                                    p.stop_percentage))
    IN  IF current_atr = IndexError
        THEN IF p.handler_falls_back THEN fallback ELSE NoInfo
        ELSE IF Degenerate(current_atr) THEN fallback
        ELSE LET stop == stop_before_rounding(p, data, signal, entry_price,
                                              current_atr.value)
             IN  IF stop.isna THEN NaNPrice
                 ELSE Price(IF p.rounds THEN Round5(stop.value, err) ELSE stop.value)

\* the body of get_take_profit of a strategy once it has the ATR
take_profit_on(p, current_atr, signal, entry_price, err) ==
    LET fallback == Price(_get_percentage_take_profit(entry_price, signal,
                                                      p.profit_percentage))
    IN  IF current_atr = IndexError
        THEN IF p.handler_falls_back THEN fallback ELSE NoInfo
        ELSE IF Degenerate(current_atr) THEN fallback
        ELSE LET target == atr_based_tp(signal, entry_price, current_atr.value,
                                        p.take_profit_atr_multiplier)
             IN  Price(IF p.rounds THEN Round5(target, err) ELSE target)

\* get_stop_loss(data, signal, entry_price) of the named strategy
stop_loss_of(name, data, signal, entry_price, err) ==
    stop_loss_on(StopParameters(name),
                 _calculate_atr(data, StopParameters(name).atr_period),
                 data, signal, entry_price, err)

\* get_take_profit(data, signal, entry_price) of the named strategy
take_profit_of(name, data, signal, entry_price, err) ==
    take_profit_on(StopParameters(name),
                   _calculate_atr(data, StopParameters(name).atr_period),
                   signal, entry_price, err)

\* the deciding errors of get_stop_loss and of get_take_profit on the ATR
StopRoundingsOn(p, current_atr, data, signal, entry_price) ==
    IF current_atr = IndexError \/ ~p.rounds THEN {0}
    ELSE IF Degenerate(current_atr) THEN {0}
    ELSE LET stop == stop_before_rounding(p, data, signal, entry_price,
                                          current_atr.value)
         IN  IF stop.isna THEN {0} ELSE Round5Roundings(stop.value)

TargetRoundingsOn(p, current_atr, signal, entry_price) ==
    IF current_atr = IndexError \/ ~p.rounds THEN {0}
    ELSE IF Degenerate(current_atr) THEN {0}
    ELSE Round5Roundings(atr_based_tp(signal, entry_price, current_atr.value,
                                      p.take_profit_atr_multiplier))

\* the deciding errors of stop_loss_of and of take_profit_of
StopRoundings(name, data, signal, entry_price) ==
    StopRoundingsOn(StopParameters(name),
                    _calculate_atr(data, StopParameters(name).atr_period),
                    data, signal, entry_price)

TargetRoundings(name, data, signal, entry_price) ==
    TargetRoundingsOn(StopParameters(name),
                      _calculate_atr(data, StopParameters(name).atr_period),
                      signal, entry_price)

\* the window the run starts on: quiet bars, one bar short of the shortest
\* ATR period
StopsStartWindow ==
    [i \in 1..(StopParameters("hft_ema").atr_period - 1) |->
        Bar(BaseClose, BaseClose, BaseClose)]

StopsInit ==
    /\ bot = "single"
    /\ positions = <<>> /\ nextTicket = 1
    /\ account = AccountInfo(GateBalance, GateBalance, 0, GateBalance, 100, TRUE)
    /\ price = BaseClose
    /\ now = StartTime /\ ticks = 0
    /\ running = TRUE
    /\ pc = "stops"
    /\ window = [bars |-> StopsStartWindow]
    /\ last_signal_time = [n \in StopStrategies |-> NoneTime]
    /\ max_drawdown_reached = FALSE
    /\ obs = [op |-> "none"]
    /\ hist = [stops |-> 0]

\* a bar closes and joins the window
StopsNewBar ==
    /\ pc = "fetch" /\ Len(window.bars) < MaxStopBars
    /\ \E bar \in BarShapes : window' = [bars |-> Append(window.bars, bar)]
    /\ pc' = "stops"
    /\ obs' = [op |-> "none"]
    /\ UNCHANGED <<bot, venueVars, clockVars, running, last_signal_time,
                   max_drawdown_reached, hist>>

\* a strategy that answered a signal is asked for both stops of the entry
StopsOfEntry ==
    /\ pc = "stops"
    /\ \E name \in StopStrategies :
       \E p \in {StopParameters(name)} :
       \E current_atr \in {_calculate_atr(window.bars, p.atr_period)} :
       \E signal \in {"BUY", "SELL"}, entry_price \in EntryPrices :
       \E stop_err \in StopRoundingsOn(p, current_atr, window.bars, signal, entry_price),
          target_err \in TargetRoundingsOn(p, current_atr, signal, entry_price) :
          obs' = [op          |-> "stops",
                  name        |-> name,
                  signal      |-> signal,
                  entry_price |-> entry_price,
                  current_atr |-> current_atr,
                  stop_loss   |-> stop_loss_on(p, current_atr, window.bars, signal,
                                               entry_price, stop_err),
                  take_profit |-> take_profit_on(p, current_atr, signal, entry_price,
                                                 target_err)]
    /\ pc' = "fetch"
    /\ UNCHANGED <<bot, venueVars, clockVars, running, window, last_signal_time,
                   max_drawdown_reached, hist>>

StopsNext == StopsNewBar \/ StopsOfEntry

SpecStops == StopsInit /\ [][StopsNext]_vars

\* the share of the entry price by which a returned price lies on the
\* losing side (stop) or on the winning side (target) of the entry
ShareBeyondEntry(signal, entry_price, level, losing) ==
    LET away == IF (signal = "BUY") = losing THEN RSub(entry_price, level)
                ELSE RSub(level, entry_price)
    IN  RDiv(away, entry_price)

\* C27: when the ATR of the window is zero or undefined, get_stop_loss and
\* get_take_profit of every strategy that derives its stops from ATR return
\* a price (they neither raise nor return None nor NaN) that lies a fixed
\* percentage of the entry price away from it: the stop on the losing side,
\* the target on the winning side, the percentage depending on the strategy
\* alone
C27_DegenerateATRFallsBackToPercentage ==
    (obs.op = "stops" /\ (obs.current_atr.isna \/ obs.current_atr.value = Zero)) =>
        /\ ~obs.stop_loss.none /\ ~obs.take_profit.none
        /\ ~obs.stop_loss.isna /\ ~obs.take_profit.isna
        /\ ShareBeyondEntry(obs.signal, obs.entry_price, obs.stop_loss.value, TRUE)
              = (CASE obs.name = "ema_crossover" -> <<1, 1000>>
                   [] obs.name \in {"hft_ema", "hft_main", "momentum_breakout"}
                         -> <<1, 2000>>
                   [] obs.name \in {"rsi_divergence", "stochastic_momentum"}
                         -> <<3, 2000>>
                   [] obs.name \in {"bollinger_scalp", "macd_signal_cross"}
                         -> <<1, 500>>)
        /\ ShareBeyondEntry(obs.signal, obs.entry_price, obs.take_profit.value, FALSE)
              = (CASE obs.name = "ema_crossover" -> <<1, 500>>
                   [] obs.name \in {"hft_ema", "hft_main", "momentum_breakout"}
                         -> <<1, 1000>>
                   [] obs.name \in {"rsi_divergence", "stochastic_momentum"}
                         -> <<3, 1000>>
                   [] obs.name \in {"bollinger_scalp", "macd_signal_cross"}
                         -> <<1, 250>>)

\* momentum_breakout is asked for the stops of a SELL on ten flat bars:
\* the ATR is a number and it is zero
C27_Witness ==
    /\ obs.op = "stops" /\ obs.name = "momentum_breakout" /\ obs.signal = "SELL"
    /\ ~obs.current_atr.isna /\ obs.current_atr.value = Zero
    /\ obs.stop_loss = Price(RMul(obs.entry_price, <<2001, 2000>>))

\* ---------------------------------------------------------------------
\* The exit scan of the single-strategy scheduler, position by position:
\* SpecExit
\* ---------------------------------------------------------------------

\* passes of the loop in a run
MaxExitPasses == 4

\* what close_position(ticket) meets: the terminal is gone, the venue no
\* longer holds the position, order_send gives no result, the venue answers
\* with another retcode than TRADE_RETCODE_DONE, the venue closes
CloseOutcomes == {"not_connected", "not_found", "no_result", "rejected", "done"}

\* a mutant of close_position: every answer of the venue is a close
AnyAnswerIsAClose(ticket, outcome) ==
    [sent   |-> outcome \in {"no_result", "rejected", "done"},
     result |-> IF outcome \in {"rejected", "done"}
                THEN [ticket |-> ticket, retcode |-> TRADE_RETCODE_DONE]
                ELSE NoInfo]

\* TradeManager.close_position(ticket): whether order_send was called, and
\* the dict or None it returns
close_position(ticket, outcome) ==
    [sent   |-> outcome \in {"no_result", "rejected", "done"},
     result |-> IF outcome = "done"
                THEN [ticket |-> ticket, retcode |-> TRADE_RETCODE_DONE]
                ELSE NoInfo]

\* get_positions(symbol): the open positions as a list of dicts, by ticket
RECURSIVE ListedFrom(_, _, _, _)
ListedFrom(pos, t, last, acc) ==
    IF t > last THEN acc
    ELSE ListedFrom(pos, t + 1, last,
                    IF t \in DOMAIN pos
                    THEN Append(acc, [ticket |-> t, type |-> pos[t].type])
                    ELSE acc)

\* what one scan has done so far
NothingScanned(trades_closed) ==
    [asked |-> <<>>, exits |-> {}, attempts |-> <<>>, sent |-> {},
     confirmed |-> {}, trades_closed |-> trades_closed]

\* the for loop of check_exit_signals over the listed positions
RECURSIVE ScanPositions(_, _, _, _, _)
ScanPositions(listed, i, data, outcome, acc) ==
    IF i > Len(listed) THEN acc
    ELSE LET position == listed[i]
             ticket   == position.ticket
             asked    == [acc EXCEPT !.asked = Append(@, ticket)]
         IN  IF should_exit(data, position)
             THEN LET r == close_position(ticket, outcome[ticket])
                  IN  ScanPositions(listed, i + 1, data, outcome,
                         [asked EXCEPT
                             !.exits         = @ \cup {ticket},
                             !.attempts      = Append(@, ticket),
                             !.sent          = IF r.sent THEN @ \cup {ticket} ELSE @,
                             !.confirmed     = IF r.result # NoInfo
                                               THEN @ \cup {ticket} ELSE @,
                             !.trades_closed = IF r.result # NoInfo
                                               THEN @ + 1 ELSE @])
             ELSE ScanPositions(listed, i + 1, data, outcome, asked)

\* check_exit_signals(data): nothing is done on no list or an empty one
check_exit_signals(listed, data, outcome, trades_closed) ==
    IF listed = NoInfo \/ listed.list = <<>> THEN NothingScanned(trades_closed)
    ELSE ScanPositions(listed.list, 1, data, outcome, NothingScanned(trades_closed))

ExitInit ==
    /\ bot = "single"
    /\ positions = <<>> /\ nextTicket = 1
    /\ account = AccountInfo(GateBalance, GateBalance, 0, GateBalance, 100, TRUE)
    /\ price = BaseClose
    /\ now = StartTime /\ ticks = 0
    /\ running = TRUE
    /\ pc = "fetch"
    /\ window = Window(StartTime, "flat")
    /\ last_signal_time = [n \in {"ema_crossover"} |-> InitialSignalTime(n)]
    /\ max_drawdown_reached = FALSE
    /\ obs = [op |-> "none"]
    /\ hist = [trades_closed |-> 0, scans |-> 0]

\* get_market_data() of a pass
ExitFetch ==
    /\ pc = "fetch" /\ ticks < MaxExitPasses
    /\ window' \in BotWindows
    /\ pc' = "trail"
    /\ obs' = [op |-> "none"]
    /\ hist' = [hist EXCEPT !.scans = 0]
    /\ UNCHANGED <<bot, venueVars, clockVars, running, last_signal_time,
                   max_drawdown_reached>>

\* risk_manager.update_trailing_stops() of the pass
ExitTrailStep ==
    /\ pc = "trail"
    /\ \E accepted \in {{}, DOMAIN positions} :
          \E errs \in [TiedStops(positions, PriceCurrent(positions, price, price), XAUUSD)
                           -> RoundingErrors] :
          \E log \in {update_trailing_stops(positions,
                         Quotes(positions, PriceCurrent(positions, price, price), XAUUSD, errs),
                         accepted)} :
              /\ positions' = [t \in DOMAIN positions |->
                                 [positions[t] EXCEPT !.sl = log[t].sl_after]]
              /\ obs' = [op |-> "update_trailing_stops", log |-> log]
    /\ pc' = "exit"
    /\ UNCHANGED <<bot, nextTicket, account, price, clockVars, running, window,
                   last_signal_time, max_drawdown_reached, hist>>

\* check_exit_signals(market_data) of the pass, with what each close meets
ExitScan ==
    /\ pc = "exit"
    /\ \E listed \in {[list |-> ListedFrom(positions, 1, nextTicket, <<>>)], NoInfo} :
       \E outcome \in [IF listed = NoInfo THEN {}
                       ELSE ExitTickets(window, positions) -> CloseOutcomes] :
          LET r    == check_exit_signals(listed, window, outcome, hist.trades_closed)
              gone == {t \in DOMAIN outcome : outcome[t] \in {"not_found", "done"}}
          IN  /\ positions' = [t \in DOMAIN positions \ gone |-> positions[t]]
              /\ obs' = [op       |-> "check_exit_signals",
                         listed   |-> listed,
                         open     |-> positions,
                         data     |-> window,
                         outcome  |-> outcome,
                         asked    |-> r.asked,
                         attempts |-> r.attempts,
                         sent     |-> r.sent,
                         trades_closed_before |-> hist.trades_closed,
                         trades_closed        |-> r.trades_closed]
              /\ hist' = [trades_closed |-> r.trades_closed, scans |-> hist.scans + 1]
    /\ pc' = "entry"
    /\ UNCHANGED <<bot, nextTicket, account, price, clockVars, running, window,
                   last_signal_time, max_drawdown_reached>>

\* check_entry_signals(market_data) of the pass, the connector answering
\* every query and the venue carrying the order out or turning it down
ExitEntryStep ==
    /\ pc = "entry"
    /\ \E venue_done \in BOOLEAN :
          \E errs \in EntryRoundings("ema_crossover", window,
                                       last_signal_time["ema_crossover"], now, account,
                                       XAUUSD, price, WindowATR) :
          \E r \in {check_entry_signals("ema_crossover", window, account,
                                       [list |-> positions], [list |-> positions],
                                       max_drawdown_reached,
                                       last_signal_time["ema_crossover"],
                                       now, XAUUSD, price, WindowATR, venue_done,
                                       errs)} :
              /\ max_drawdown_reached' = r.flag
              /\ IF r.outcome = "accepted"
                 THEN /\ positions' = [t \in DOMAIN positions \cup {nextTicket} |->
                                         IF t = nextTicket
                                         THEN Position(r.order.type, r.order.sl, r.order.tp,
                                                       r.order.volume, r.order.comment)
                                         ELSE positions[t]]
                      /\ nextTicket' = nextTicket + 1
                      /\ last_signal_time' = [last_signal_time EXCEPT
                                                !["ema_crossover"] = update_signal_history(now)]
                 ELSE UNCHANGED <<positions, nextTicket, last_signal_time>>
    /\ pc' = "sleep"
    /\ UNCHANGED <<bot, account, price, clockVars, running, window, obs, hist>>

\* sleep(update_interval); the pass took d seconds in all
ExitSleep ==
    /\ pc = "sleep"
    /\ \E d \in {update_interval, min_interval_seconds} : now' = now + d
    /\ ticks' = ticks + 1
    /\ pc' = "fetch"
    /\ UNCHANGED <<bot, venueVars, running, window, last_signal_time,
                   max_drawdown_reached, obs, hist>>

ExitNext == ExitFetch \/ ExitTrailStep \/ ExitScan \/ ExitEntryStep \/ ExitSleep

SpecExit == ExitInit /\ [][ExitNext]_vars

\* the tickets of a sequence of calls
Called(calls) == {calls[i] : i \in DOMAIN calls}

\* each ticket is called at most once
OncePerTicket(calls) ==
    \A i, j \in DOMAIN calls : calls[i] = calls[j] => i = j

\* C28: in the exit scan of a pass of the single-strategy scheduler,
\* close_position is called for an open position exactly when should_exit
\* answered true for it on the window of this pass (a BUY with the last
\* close below the EMA, a SELL with it above); no position is asked or
\* closed twice in the pass, the scan runs once per pass, and trades_closed
\* grows by exactly the number of closes the venue confirmed with
\* TRADE_RETCODE_DONE
C28_ExitScanClosesWhatShouldExit ==
    obs.op = "check_exit_signals" =>
        /\ \A t \in DOMAIN obs.open :
              (t \in Called(obs.attempts)) <=>
                 /\ obs.listed # NoInfo
                 /\ \/ obs.open[t].type = "BUY"  /\ LastClose(obs.data) = "below"
                    \/ obs.open[t].type = "SELL" /\ LastClose(obs.data) = "above"
        /\ Called(obs.attempts) \subseteq DOMAIN obs.open
        /\ OncePerTicket(obs.attempts) /\ OncePerTicket(obs.asked)
        /\ hist.scans = 1
        /\ obs.trades_closed - obs.trades_closed_before
              = Cardinality({t \in Called(obs.attempts) : obs.outcome[t] = "done"})
        /\ obs.sent = {t \in Called(obs.attempts) :
                         obs.outcome[t] \notin {"not_connected", "not_found"}}

\* a scan over a BUY and a SELL with the last close below the EMA: the BUY is
\* closed and the venue turns the close down, so trades_closed stays
C28_Witness ==
    /\ obs.op = "check_exit_signals"
    /\ Len(obs.asked) >= 2 /\ Len(obs.attempts) = 1
    /\ obs.outcome[obs.attempts[1]] = "rejected"
    /\ obs.trades_closed = obs.trades_closed_before
    /\ obs.trades_closed_before = 1

\* ---------------------------------------------------------------------
\* The open positions of the account over the passes of the
\* single-strategy scheduler, no one else opening positions: SpecCap
\* ---------------------------------------------------------------------

\* passes of the loop in a run
MaxCapTicks == 3

CapInit ==
    /\ positions \in {StartPositions(n) : n \in {0, max_positions - 1}}
    /\ nextTicket = max_positions
    /\ account = AccountInfo(GateBalance, GateBalance, 0, GateBalance, 100, TRUE)
    /\ price = RR(2000)
    /\ now = StartTime
    /\ ticks = 0
    /\ bot = "single"
    /\ running = TRUE
    /\ pc = "loop"
    /\ window = Window(StartTime, "flat")
    /\ last_signal_time = [n \in {"ema_crossover"} |-> InitialSignalTime(n)]
    /\ max_drawdown_reached = FALSE
    /\ obs = [op |-> "none"]
    /\ hist = [opened |-> 0]

\* the venue closes a position on its stop or target
CapVenueCloses ==
    /\ pc = "loop" /\ positions # <<>>
    /\ positions' = [u \in DOMAIN positions \ {Oldest(positions)} |-> positions[u]]
    /\ UNCHANGED <<nextTicket, account, price, clockVars, loopVars, last_signal_time,
                   max_drawdown_reached, obs, hist>>

\* get_market_data() of a pass
CapMarketData ==
    /\ pc = "loop" /\ ticks < MaxCapTicks
    /\ window' \in BotWindows
    /\ pc' = "trail"
    /\ UNCHANGED <<bot, venueVars, clockVars, running, last_signal_time,
                   max_drawdown_reached, obs, hist>>

\* risk_manager.update_trailing_stops() of the pass: the venue carries out
\* the modifications or turns them down
CapTrailStep ==
    /\ pc = "trail"
    /\ \E accepted \in {{}, DOMAIN positions} :
          \E errs \in [TiedStops(positions, PriceCurrent(positions, price, price), XAUUSD)
                           -> RoundingErrors] :
          \E log \in {update_trailing_stops(positions,
                         Quotes(positions, PriceCurrent(positions, price, price), XAUUSD, errs),
                         accepted)} :
              /\ positions' = [t \in DOMAIN positions |->
                                 [positions[t] EXCEPT !.sl = log[t].sl_after]]
              /\ obs' = [op |-> "update_trailing_stops", log |-> log]
    /\ pc' = "exit"
    /\ UNCHANGED <<bot, nextTicket, account, price, clockVars, running, window,
                   last_signal_time, max_drawdown_reached, hist>>

\* check_exit_signals(market_data) of the pass: the venue carries out the
\* closes or turns them down
CapExitStep ==
    /\ pc = "exit"
    /\ \E venue_done \in BOOLEAN :
          LET closed == IF venue_done THEN ExitTickets(window, positions) ELSE {}
          IN  /\ positions' = [t \in DOMAIN positions \ closed |-> positions[t]]
              /\ obs' = [op |-> "check_exit_signals", closed |-> closed,
                         scanned |-> DOMAIN positions, venue_done |-> venue_done]
    /\ pc' = "entry"
    /\ UNCHANGED <<bot, nextTicket, account, price, clockVars, running, window,
                   last_signal_time, max_drawdown_reached, hist>>

\* check_entry_signals(market_data) of the pass: account info and the list
\* of open positions as the connector answers them, each of them or None;
\* the list is asked for by the gate of the entry check and again by the
\* gate inside validate_trade
CapEntryStep ==
    /\ pc = "entry"
    /\ \E info \in {account, NoInfo}, listed \in {[list |-> positions], NoInfo},
          listed_again \in {[list |-> positions], NoInfo}, venue_done \in BOOLEAN :
          \E errs \in EntryRoundings("ema_crossover", window,
                                       last_signal_time["ema_crossover"], now, info,
                                       XAUUSD, price, WindowATR) :
          \E r \in {check_entry_signals("ema_crossover", window, info, listed,
                                       listed_again, max_drawdown_reached,
                                       last_signal_time["ema_crossover"],
                                       now, XAUUSD, price, WindowATR, venue_done,
                                       errs)} :
              /\ max_drawdown_reached' = r.flag
              /\ IF r.outcome = "accepted"
                 THEN /\ positions' = [t \in DOMAIN positions \cup {nextTicket} |->
                                         IF t = nextTicket
                                         THEN Position(r.order.type, r.order.sl, r.order.tp,
                                                       r.order.volume, r.order.comment)
                                         ELSE positions[t]]
                      /\ nextTicket' = nextTicket + 1
                      /\ last_signal_time' = [last_signal_time EXCEPT
                                                !["ema_crossover"] = update_signal_history(now)]
                      /\ hist' = [opened |-> hist.opened + 1]
                 ELSE UNCHANGED <<positions, nextTicket, last_signal_time, hist>>
              /\ obs' = [op |-> "check_entry_signals", outcome |-> r.outcome,
                         why |-> r.why, listed |-> listed, listed_again |-> listed_again,
                         open |-> Cardinality(DOMAIN positions)]
    /\ pc' = "sleep"
    /\ UNCHANGED <<bot, account, price, clockVars, running, window>>

\* sleep(update_interval); the pass took d seconds in all
CapSleep ==
    /\ pc = "sleep"
    /\ \E d \in {update_interval, min_interval_seconds} : now' = now + d
    /\ ticks' = ticks + 1
    /\ pc' = "loop"
    /\ UNCHANGED <<bot, venueVars, running, window, last_signal_time,
                   max_drawdown_reached, obs, hist>>

CapNext ==
    \/ CapVenueCloses \/ CapMarketData \/ CapTrailStep \/ CapExitStep
    \/ CapEntryStep \/ CapSleep

SpecCap == CapInit /\ [][CapNext]_vars

\* C29: over the passes of the single-strategy scheduler, with no one else
\* opening positions, the open positions of the account never number more
\* than RISK_SETTINGS max_positions
C29_OpenPositionsWithinGlobalCap ==
    Cardinality(DOMAIN positions) <= max_positions

\* ---------------------------------------------------------------------
\* check_trading_allowed with the queries it makes of the connector, each
\* of which answers a value, answers None or raises: SpecGateQueries
\* ---------------------------------------------------------------------

\* a query of the connector that returns (a value or None), and one that raises
Answers(value) == [raised |-> FALSE, value |-> value]
Raises == [raised |-> TRUE, value |-> NoInfo]

\* a handler that lets the entry through when a query raises
FailsOpenOnException(account_query, positions_query, flag) ==
    IF account_query.raised \/ (account_query.value # NoInfo /\ positions_query.raised)
    THEN [allowed |-> TRUE, why |-> "exception", flag |-> flag]
    ELSE check_trading_allowed(account_query.value, positions_query.value, flag)

\* check_trading_allowed inside its try / except: get_positions() is asked
\* only after get_account_info() has answered an account
check_trading_allowed_try(account_query, positions_query, flag) ==
    IF account_query.raised \/ (account_query.value # NoInfo /\ positions_query.raised)
    THEN [allowed |-> FALSE, why |-> "exception", flag |-> flag]
    ELSE check_trading_allowed(account_query.value, positions_query.value, flag)

\* risk_manager.check_trading_allowed() with what its two queries do
GateQueries ==
    \E account_query \in {Answers(account), Answers(NoInfo), Raises},
       positions_query \in {Answers([list |-> positions]), Answers(NoInfo), Raises} :
        LET gate == check_trading_allowed_try(account_query, positions_query,
                                              max_drawdown_reached)
        IN  /\ obs' = [op |-> "check_trading_allowed", allowed |-> gate.allowed,
                       why |-> gate.why,
                       account_query |-> account_query,
                       positions_query |-> positions_query,
                       open |-> Cardinality(DOMAIN positions)]
            /\ max_drawdown_reached' = gate.flag
            /\ hist' = [hist EXCEPT
                          !.daily_loss_returned = @ \/ gate.why = "daily_loss",
                          !.drawdown_breached   = @ \/ gate.why = "max_drawdown"]
            /\ UNCHANGED <<venueVars, clockVars, loopVars, last_signal_time>>

GateQueriesNext == GateAccountMoves \/ GatePositionsMove \/ GateQueries

SpecGateQueries == GateInit /\ [][GateQueriesNext]_vars

\* C30: check_trading_allowed answers False when get_account_info() gives
\* no account and when a query raises; when get_positions() answers None
\* while the account is available, the number of open positions has no
\* part in the answer: it is True exactly when the loss is below balance *
\* max_daily_loss, balance - equity is below balance * max_drawdown and the
\* account allows trading, whatever the number of open positions
C30_GateSkipsCapWithoutPositionList ==
    obs.op = "check_trading_allowed" =>
        LET a == obs.account_query.value
        IN  /\ (obs.account_query.raised \/ a = NoInfo) => ~obs.allowed
            /\ (~obs.account_query.raised /\ a # NoInfo /\ obs.positions_query.raised)
                  => ~obs.allowed
            /\ (~obs.account_query.raised /\ a # NoInfo
                /\ obs.positions_query = Answers(NoInfo))
                  => (obs.allowed <=>
                        /\ ~(a.profit < 0 /\ a.balance * max_daily_loss[1]
                                               <= (0 - a.profit) * max_daily_loss[2])
                        /\ (a.balance - a.equity) * max_drawdown[2]
                              < a.balance * max_drawdown[1]
                        /\ a.trade_allowed)

\* with the book at the cap and the account sound, the position query
\* answers None and the gate answers True
C30_Witness ==
    /\ obs.op = "check_trading_allowed"
    /\ obs.account_query = Answers(account) /\ obs.positions_query = Answers(NoInfo)
    /\ obs.open >= max_positions
    /\ obs.allowed

\* ---------------------------------------------------------------------
\* The telemetry counters of MultiStrategyTradingBot and
\* ProductionMultiStrategyBot over the passes of the loop: SpecTelemetry
\* ---------------------------------------------------------------------

\* passes of the loop in a run
MaxTelemetryPasses == 2

\* the schedulers that keep self.stats in this shape
CountingBots == {"multi", "production"}

\* self.stats after __init__: global_stats and strategy_stats
StatsInit(b) ==
    [global_stats   |-> [signals |-> 0, trades |-> 0,
                         successful_trades |-> 0, failed_trades |-> 0],
     strategy_stats |-> [n \in StrategySet(b) |-> [signals |-> 0, trades |-> 0]]]

\* a loop that counts a signal whose trade fails nowhere but as a signal
CountSignalForgetsFailure(stats, name, executed) ==
    LET signalled == [stats EXCEPT !.strategy_stats[name].signals = @ + 1,
                                   !.global_stats.signals = @ + 1]
    IN  IF executed
        THEN [signalled EXCEPT !.strategy_stats[name].trades = @ + 1,
                               !.global_stats.trades = @ + 1,
                               !.global_stats.successful_trades = @ + 1]
        ELSE signalled

\* the counting of the loop for a signal: the two signal counters, then the
\* three trade counters when execute_strategy_trade answered True,
\* failed_trades when it answered False
CountSignal(stats, name, executed) ==
    LET signalled == [stats EXCEPT !.strategy_stats[name].signals = @ + 1,
                                   !.global_stats.signals = @ + 1]
    IN  IF executed
        THEN [signalled EXCEPT !.strategy_stats[name].trades = @ + 1,
                               !.global_stats.trades = @ + 1,
                               !.global_stats.successful_trades = @ + 1]
        ELSE [signalled EXCEPT !.global_stats.failed_trades = @ + 1]

TelemetryInit ==
    /\ bot \in CountingBots
    /\ positions \in {StartOwned(bot, k) : k \in {0, FirstCap(bot)}}
    /\ nextTicket = FirstCap(bot) + 1
    /\ account = AccountInfo(GateBalance, GateBalance, 0, GateBalance, 100, TRUE)
    /\ price = RR(2000)
    /\ now = StartTime
    /\ ticks = 0
    /\ running = TRUE
    /\ pc = "loop"
    /\ window = Window(StartTime, "flat")
    /\ last_signal_time = [n \in StrategySet(bot) |-> InitialSignalTime(n)]
    /\ max_drawdown_reached = FALSE
    /\ obs = [op |-> "none"]
    /\ hist = [stats |-> StatsInit(bot)]

\* get_market_data of a pass answers a window of 50 bars or more
TelemetryData ==
    /\ pc = "loop" /\ ticks < MaxTelemetryPasses
    /\ window' = Window(now, "flat")
    /\ pc' = Strategies(bot)[1]
    /\ obs' = [op |-> "none"]
    /\ UNCHANGED <<bot, venueVars, clockVars, running, last_signal_time,
                   max_drawdown_reached, hist>>

\* the turn of strategy pc with the counting that follows it
TelemetryTurn ==
    /\ \E i \in 1..Len(Strategies(bot)) :
          /\ pc = Strategies(bot)[i]
          /\ pc' = NextTurn(bot, i)
    /\ \E cross \in {"up", "flat"}, listed \in Listings(bot, positions),
          answer \in VenueAnswers :
       \E r \in {StrategyTurn(bot, pc, Window(window.bar_time, cross), account, listed,
                              listed, last_signal_time[pc], now, price, answer)} :
          /\ last_signal_time' = [last_signal_time EXCEPT ![pc] = r.last_signal_time]
          /\ IF r.outcome = "accepted"
             THEN /\ positions' = [t \in DOMAIN positions \cup {nextTicket} |->
                                     IF t = nextTicket THEN r.order ELSE positions[t]]
                  /\ nextTicket' = nextTicket + 1
             ELSE UNCHANGED <<positions, nextTicket>>
          /\ hist' = [stats |-> IF r.outcome \in {"at_cap", "no_signal"} THEN hist.stats
                                ELSE CountSignal(hist.stats, pc, r.outcome = "accepted")]
          /\ obs' = [op |-> "strategy_turn", name |-> pc, outcome |-> r.outcome]
    /\ UNCHANGED <<bot, account, price, clockVars, running, window,
                   max_drawdown_reached>>

\* total_loops += 1 and the sleep that ends the pass
TelemetrySleep ==
    /\ pc = "sleep"
    /\ \E d \in MultiTickTenths(bot, TRUE) : now' = now + d
    /\ ticks' = ticks + 1
    /\ pc' = "loop"
    /\ UNCHANGED <<bot, venueVars, running, window, last_signal_time,
                   max_drawdown_reached, obs, hist>>

TelemetryNext == TelemetryData \/ TelemetryTurn \/ TelemetrySleep

SpecTelemetry == TelemetryInit /\ [][TelemetryNext]_vars

\* the sum of one counter over the strategies of the scheduler
RECURSIVE SumOverStrategies(_, _, _)
SumOverStrategies(strategy_stats, names, counter) ==
    IF names = {} THEN 0
    ELSE LET n == CHOOSE x \in names : TRUE
         IN  strategy_stats[n][counter]
                + SumOverStrategies(strategy_stats, names \ {n}, counter)

\* C31: between the passes of the multi-strategy loop the counters agree:
\* global signals = successful_trades + failed_trades, global trades =
\* successful_trades, global signals is the sum of the strategies' signal
\* counters and global trades the sum of their trade counters
C31_TelemetryCountersAgree ==
    pc = "loop" =>
        LET g == hist.stats.global_stats
            per == hist.stats.strategy_stats
        IN  /\ g.signals = g.successful_trades + g.failed_trades
            /\ g.trades = g.successful_trades
            /\ g.signals = SumOverStrategies(per, DOMAIN per, "signals")
            /\ g.trades = SumOverStrategies(per, DOMAIN per, "trades")

\* at the end of a pass two strategies have signalled, one of them twice
C31_Witness ==
    /\ pc = "loop"
    /\ hist.stats.global_stats.signals >= 3
    /\ \E n \in DOMAIN hist.stats.strategy_stats :
          hist.stats.strategy_stats[n].signals = 2
    /\ \E n \in DOMAIN hist.stats.strategy_stats :
          hist.stats.strategy_stats[n].signals = 1

\* the variants whose get_signal keeps the cooldown clock itself
SelfClockedStrategies ==
    {"aggressive_scalp", "momentum_breakout", "mean_reversion", "hft_ema"}

\* C32: in the multi-strategy loops, a variant that keeps its own cooldown
\* clock sets last_signal_time when it emits a signal (to the time of its
\* clock at the call), also when the order is then blocked by the risk gate
\* or refused by the venue, and a call right after answers no signal; the
\* turn of ema_crossover, which relies on validate_signal of the base class,
\* leaves its last_signal_time as it was
C32_EmissionConsumesCooldown ==
    (bot \in CountingBots /\ obs.op = "strategy_turn") =>
        /\ (obs.name \in SelfClockedStrategies
            /\ obs.outcome \in {"risk_check_failed", "rejected", "accepted"}) =>
              /\ last_signal_time[obs.name]
                    = (IF obs.name = "hft_ema" THEN window.bar_time ELSE now)
              /\ \A cross \in {"up", "down"} :
                    get_signal(obs.name, CooldownTenths(bot, obs.name),
                               Window(window.bar_time, cross),
                               last_signal_time[obs.name], now).signal = "None"
        /\ (obs.name \notin SelfClockedStrategies) =>
              /\ ~obs.stamped
              /\ last_signal_time[obs.name] = InitialSignalTime(obs.name)

\* momentum_breakout emitted a signal, the risk check turned the order down
\* and the clock of the strategy was set all the same
C32_Witness ==
    /\ bot = "multi" /\ obs.op = "strategy_turn"
    /\ obs.name = "momentum_breakout" /\ obs.outcome = "risk_check_failed"
    /\ obs.stamped /\ last_signal_time["momentum_breakout"] = now

-----------------------------------------------------------------------------
(* The passes of run_main_loop with the window each position was opened    *)
(* on kept beside it.                                                      *)

MaxHoldTicks == 3

HoldInit ==
    /\ positions \in {StartPositions(n) : n \in {0, 1}}
    /\ nextTicket = 2
    /\ account = AccountInfo(GateBalance, GateBalance, 0, GateBalance, 100, TRUE)
    /\ price = RR(2000)
    /\ now = StartTime
    /\ ticks = 0
    /\ bot = "single"
    /\ running = TRUE
    /\ pc = "loop"
    /\ window = Window(StartTime, "flat")
    /\ last_signal_time = [n \in {"ema_crossover"} |-> InitialSignalTime(n)]
    /\ max_drawdown_reached = FALSE
    /\ obs = [op |-> "none"]
    /\ hist = [opened_on |-> <<>>]

\* get_market_data() of a pass
HoldMarketData ==
    /\ pc = "loop" /\ ticks < MaxHoldTicks
    /\ window' \in BotWindows
    /\ pc' = "trail"
    /\ UNCHANGED <<bot, venueVars, clockVars, running, last_signal_time,
                   max_drawdown_reached, obs, hist>>

\* risk_manager.update_trailing_stops()
HoldTrailStep ==
    /\ pc = "trail"
    /\ \E accepted \in {{}, DOMAIN positions} :
          \E errs \in [TiedStops(positions, PriceCurrent(positions, price, price), XAUUSD)
                           -> RoundingErrors] :
          \E log \in {update_trailing_stops(positions,
                         Quotes(positions, PriceCurrent(positions, price, price), XAUUSD, errs),
                         accepted)} :
              /\ positions' = [t \in DOMAIN positions |->
                                 [positions[t] EXCEPT !.sl = log[t].sl_after]]
              /\ obs' = [op |-> "update_trailing_stops", log |-> log]
    /\ pc' = "exit"
    /\ UNCHANGED <<bot, nextTicket, account, price, clockVars, running, window,
                   last_signal_time, max_drawdown_reached, hist>>

\* check_exit_signals(market_data)
HoldExitStep ==
    /\ pc = "exit"
    /\ \E venue_done \in BOOLEAN :
          LET closed == IF venue_done THEN ExitTickets(window, positions) ELSE {}
          IN  /\ positions' = [t \in DOMAIN positions \ closed |-> positions[t]]
              /\ obs' = [op |-> "check_exit_signals", closed |-> closed,
                         scanned |-> DOMAIN positions, venue_done |-> venue_done]
    /\ pc' = "entry"
    /\ UNCHANGED <<bot, nextTicket, account, price, clockVars, running, window,
                   last_signal_time, max_drawdown_reached, hist>>

\* check_entry_signals(market_data)
HoldEntryStep ==
    /\ pc = "entry"
    /\ \E info \in {account, NoInfo}, venue_done \in BOOLEAN :
          \E errs \in EntryRoundings("ema_crossover", window,
                                       last_signal_time["ema_crossover"], now, info,
                                       XAUUSD, price, WindowATR) :
          \E r \in {check_entry_signals("ema_crossover", window, info,
                                       [list |-> positions], [list |-> positions],
                                       max_drawdown_reached,
                                       last_signal_time["ema_crossover"],
                                       now, XAUUSD, price, WindowATR, venue_done,
                                       errs)} :
              /\ max_drawdown_reached' = r.flag
              /\ IF r.outcome = "accepted"
                 THEN /\ positions' = [t \in DOMAIN positions \cup {nextTicket} |->
                                         IF t = nextTicket
                                         THEN Position(r.order.type, r.order.sl, r.order.tp,
                                                       r.order.volume, r.order.comment)
                                         ELSE positions[t]]
                      /\ nextTicket' = nextTicket + 1
                      /\ last_signal_time' = [last_signal_time EXCEPT
                                                !["ema_crossover"] = update_signal_history(now)]
                      /\ hist' = [opened_on |->
                                    [t \in DOMAIN hist.opened_on \cup {nextTicket} |->
                                       IF t = nextTicket THEN window
                                       ELSE hist.opened_on[t]]]
                 ELSE UNCHANGED <<positions, nextTicket, last_signal_time, hist>>
              /\ obs' = [op |-> "check_entry_signals", outcome |-> r.outcome]
    /\ pc' = "sleep"
    /\ UNCHANGED <<bot, account, price, clockVars, running, window>>

\* sleep(update_interval); the pass took d seconds in all
HoldSleep ==
    /\ pc = "sleep"
    /\ \E d \in {update_interval, min_interval_seconds} : now' = now + d
    /\ ticks' = ticks + 1
    /\ pc' = "loop"
    /\ UNCHANGED <<bot, venueVars, running, window, last_signal_time,
                   max_drawdown_reached, obs, hist>>

HoldNext == HoldMarketData \/ HoldTrailStep \/ HoldExitStep \/ HoldEntryStep \/ HoldSleep

SpecHold == HoldInit /\ [][HoldNext]_vars

\* C33: for ema_crossover no window gives both the entry signal and the exit
\* of a position of the same direction, and in the single-strategy loop an
\* exit scan never closes a position that an entry scan opened on a window
\* equal to the one the exit scan reads
C33_EntryWindowHoldsPosition ==
    [][ /\ \A w \in BotWindows, s \in {"BUY", "SELL"} :
              ~(CrossSignal(w) = s /\ should_exit(w, [type |-> s]))
        /\ pc = "exit" =>
              \A t \in DOMAIN positions \ DOMAIN positions' :
                  t \in DOMAIN hist.opened_on => hist.opened_on[t] # window ]_vars

\* an exit scan whose closes the venue carries out has read the very window
\* a position was opened on, and the position is still open
C33_Witness ==
    /\ obs.op = "check_exit_signals" /\ obs.venue_done
    /\ \E t \in DOMAIN positions \cap DOMAIN hist.opened_on :
          t \in obs.scanned /\ hist.opened_on[t] = window

-----------------------------------------------------------------------------
(* One pass of update_trailing_stops, position by position: the request    *)
(* modify_position builds for each, what may fail on the way, and what the *)
(* venue makes of the requests it carries out.                             *)

MaxFramePasses == 2

\* an argument of modify_position left at its default (Python None)
NotGiven == <<>>

\* a modify_position that sends what it was handed, the stop and the target
\* both, and so clears the one left out
ClearsWhatIsLeftOut(ticket, at_venue, stop_loss, take_profit) ==
    [action |-> "TRADE_ACTION_SLTP", position |-> ticket,
     sl |-> IF stop_loss # NotGiven THEN stop_loss ELSE Zero,
     tp |-> IF take_profit # NotGiven THEN take_profit ELSE Zero]

\* TradeManager.modify_position: the request sent for the position the venue
\* holds under the ticket
modify_position(ticket, at_venue, stop_loss, take_profit) ==
    [action |-> "TRADE_ACTION_SLTP", position |-> ticket,
     sl |-> IF stop_loss # NotGiven THEN stop_loss ELSE at_venue.sl,
     tp |-> IF take_profit # NotGiven THEN take_profit ELSE at_venue.tp]

\* what may go wrong with one position of a pass: get_symbol_info() answers
\* None, an exception inside _update_position_trailing_stop, or the venue
\* turns the modification down
TrailFaults == {"none", "no_symbol_info", "exception", "rejected"}

\* a loop that gives up at the first position that fails
EvaluatedUpToFirstFailure(listed, fault) ==
    {t \in DOMAIN listed : \A u \in DOMAIN listed : u < t => fault[u] = "none"}

\* the positions the for loop of update_trailing_stops gets to: each call of
\* _update_position_trailing_stop catches what it raises
PositionsEvaluated(listed, fault) == DOMAIN listed

\* update_trailing_stops with the setting RISK_SETTINGS['trailing_stop'] as
\* given: per listed position, whether the loop got to it, the request sent
\* and whether the venue carried it out; quote: what the pass reads for
\* each position when get_symbol_info() answers
trailing_stops_pass(enabled, listed, quote, fault) ==
    [t \in DOMAIN listed |->
        LET info == IF fault[t] = "no_symbol_info" THEN NoInfo ELSE quote[t].symbol_info
            u == _update_position_trailing_stop(listed[t], quote[t].price_current, info,
                                                quote[t].is_jpy, quote[t].err)
            evaluated == enabled /\ t \in PositionsEvaluated(listed, fault)
            called == evaluated /\ fault[t] # "exception" /\ u.send
            request == IF called THEN modify_position(t, listed[t], u.new_sl, NotGiven)
                       ELSE NoInfo
        IN  [evaluated |-> evaluated, request |-> request,
             done |-> called /\ fault[t] = "none"]]

\* the venue carries out a TRADE_ACTION_SLTP request: stop and target of the
\* position become those of the request
VenueModifies(position, request) ==
    [position EXCEPT !.sl = request.sl, !.tp = request.tp]

FrameInit ==
    /\ \E s1 \in TrailStartStops("BUY"), s2 \in TrailStartStops("SELL") :
          positions = [t \in 1..2 |->
                         IF t = 1 THEN Position("BUY", s1, RR(2020), <<1, 100>>, <<"manual">>)
                         ELSE Position("SELL", s2, RR(1980), <<1, 100>>, <<"manual">>)]
    /\ nextTicket = 3
    /\ account = AccountInfo(GateBalance, GateBalance, 0, GateBalance, 100, TRUE)
    /\ price \in TrailPrices
    /\ now = 0
    /\ ticks = 0
    /\ bot = "none"
    /\ running = FALSE
    /\ pc = "off"
    /\ window = NoInfo
    /\ last_signal_time = <<>>
    /\ max_drawdown_reached = FALSE
    /\ obs = [op |-> "none"]
    /\ hist \in {[trailing_stop |-> b] : b \in BOOLEAN}

FramePriceMoves ==
    /\ price' \in TrailPrices \ {price}
    /\ obs' = [op |-> "none"]
    /\ UNCHANGED <<positions, nextTicket, account, clockVars, loopVars, last_signal_time,
                   max_drawdown_reached, hist>>

\* risk_manager.update_trailing_stops() under the setting of the session
FramePass ==
    /\ ticks < MaxFramePasses
    /\ \E fault \in [DOMAIN positions -> TrailFaults],
          errs \in [TiedStops(positions, PriceCurrent(positions, price, price), XAUUSD)
                      -> RoundingErrors] :
          \E log \in {trailing_stops_pass(hist.trailing_stop, positions,
                         Quotes(positions, PriceCurrent(positions, price, price), XAUUSD, errs),
                         fault)} :
              /\ positions' = [t \in DOMAIN positions |->
                                 IF log[t].done
                                 THEN VenueModifies(positions[t], log[t].request)
                                 ELSE positions[t]]
              /\ obs' = [op |-> "update_trailing_stops", log |-> log, fault |-> fault,
                         before |-> positions, price |-> price]
    /\ ticks' = ticks + 1
    /\ UNCHANGED <<nextTicket, account, price, now, loopVars, last_signal_time,
                   max_drawdown_reached, hist>>

FrameNext == FramePriceMoves \/ FramePass

SpecFrame == FrameInit /\ [][FrameNext]_vars

\* C34: a pass of update_trailing_stops leaves every position open with its
\* direction, volume and target as they were; each request it sends is a
\* stop-and-target modification of the position that carries the target the
\* position has; with RISK_SETTINGS['trailing_stop'] off it sends none
C34_TrailingChangesOnlyTheStop ==
    obs.op = "update_trailing_stops" =>
        /\ DOMAIN positions = DOMAIN obs.before
        /\ \A t \in DOMAIN obs.before :
              /\ positions[t] = [obs.before[t] EXCEPT !.sl = positions[t].sl]
              /\ obs.log[t].request # NoInfo =>
                    /\ obs.log[t].request.action = "TRADE_ACTION_SLTP"
                    /\ obs.log[t].request.position = t
                    /\ obs.log[t].request.tp = obs.before[t].tp
              /\ ~hist.trailing_stop => obs.log[t].request = NoInfo

\* a pass moved the stop of a position that has a target
C34_Witness ==
    /\ obs.op = "update_trailing_stops" /\ hist.trailing_stop
    /\ \E t \in DOMAIN obs.before :
          /\ obs.log[t].done /\ obs.before[t].tp # Zero
          /\ positions[t].sl # obs.before[t].sl

\* with the setting off, a pass over a position whose stop would move
C34_WitnessOff ==
    /\ obs.op = "update_trailing_stops" /\ ~hist.trailing_stop
    /\ \E t \in DOMAIN obs.before :
          _update_position_trailing_stop(obs.before[t], obs.price, XAUUSD, FALSE, 0).send

\* the stop a position carries after a pass in which nothing fails for it
\* (a candidate equal to the stop in place leaves the stop where it is,
\* sent or not)
StopAfterCleanUpdate(position, current_price) ==
    LET u == _update_position_trailing_stop(position, current_price, XAUUSD, FALSE, 0)
    IN  IF u.send THEN u.new_sl ELSE position.sl

\* C35: in a pass with trailing stops on, a position for which the update
\* fails (no symbol info, an exception, the venue turns the modification
\* down) keeps its stop, and every other position is evaluated and gets the
\* stop it would get in a pass without failures
C35_FailureStaysWithItsPosition ==
    (obs.op = "update_trailing_stops" /\ hist.trailing_stop) =>
        \A t \in DOMAIN obs.before :
            /\ obs.fault[t] # "none" => positions[t].sl = obs.before[t].sl
            /\ obs.fault[t] = "none" =>
                  /\ obs.log[t].evaluated
                  /\ positions[t].sl = StopAfterCleanUpdate(obs.before[t], obs.price)

\* the update of the first position failed and the stop of the second one
\* was moved in the same pass
C35_Witness ==
    /\ obs.op = "update_trailing_stops" /\ hist.trailing_stop
    /\ obs.fault[1] # "none" /\ obs.fault[2] = "none"
    /\ _update_position_trailing_stop(obs.before[1], obs.price, XAUUSD, FALSE, 0).send
    /\ positions[1].sl = obs.before[1].sl
    /\ positions[2].sl # obs.before[2].sl

-----------------------------------------------------------------------------
(* run_main_loop against the clock: is_trading_time() is asked at the top  *)
(* of a pass, and the calls of the pass take their time.  The clock counts *)
(* seconds from a Monday, 00:00:00 local time.                             *)

MaxHoursPasses == 2

\* TIME_SETTINGS
trading_days == {0, 1, 2, 3, 4}
trading_start_hour == 0
trading_end_hour == 23

SecondsPerHour == 3600
SecondsPerDay == 86400

\* datetime.weekday() (Monday is 0) and datetime.hour of the clock
weekday(t) == (t \div SecondsPerDay) % 7
hour(t) == (t % SecondsPerDay) \div SecondsPerHour

\* TradingBot.is_trading_time at clock t
is_trading_time(t) ==
    /\ weekday(t) \in trading_days
    /\ trading_start_hour <= hour(t) /\ hour(t) <= trading_end_hour

\* the clock when the session is looked at: a second before Friday ends, and
\* a minute before Sunday ends
FridayLastSecond == 5 * SecondsPerDay - 1
SundayLastMinute == 7 * SecondsPerDay - 60
HoursStartTimes == {FridayLastSecond, SundayLastMinute}

\* seconds a call to the terminal may take
CallSeconds == {0, 1}

HoursInit ==
    /\ positions = StartPositions(1)
    /\ nextTicket = 2
    /\ account = AccountInfo(GateBalance, GateBalance, 0, GateBalance, 100, TRUE)
    /\ price = RR(2000)
    /\ now \in HoursStartTimes
    /\ ticks = 0
    /\ bot = "single"
    /\ running = TRUE
    /\ pc = "loop"
    /\ window = Window(StartTime, "flat")
    /\ last_signal_time = [n \in {"ema_crossover"} |-> InitialSignalTime(n)]
    /\ max_drawdown_reached = FALSE
    /\ obs = [op |-> "none", mutation |-> FALSE, time |-> 0]
    /\ hist = [checked |-> 0]

\* signal_handler: running = False
HoursSignalHandler ==
    /\ running /\ pc # "off"
    /\ running' = FALSE
    /\ UNCHANGED <<bot, venueVars, clockVars, pc, window, last_signal_time,
                   max_drawdown_reached, obs, hist>>

\* "while self.running" fails: stop()
HoursLoopExit ==
    /\ pc = "loop" /\ ~running
    /\ pc' = "off"
    /\ obs' = [op |-> "stop", mutation |-> FALSE, time |-> now]
    /\ UNCHANGED <<bot, venueVars, clockVars, running, window, last_signal_time,
                   max_drawdown_reached, hist>>

\* "if not self.is_trading_time(): time.sleep(60); continue"
HoursClosed ==
    /\ pc = "loop" /\ running /\ ticks < MaxHoursPasses
    /\ ~is_trading_time(now)
    /\ now' = now + closed_hours_sleep
    /\ ticks' = ticks + 1
    /\ obs' = [op |-> "wait", mutation |-> FALSE, time |-> now]
    /\ hist' = [checked |-> now]
    /\ UNCHANGED <<venueVars, loopVars, last_signal_time, max_drawdown_reached>>

\* is_trading_time() answers True; get_market_data() answers a window
HoursMarketData ==
    /\ pc = "loop" /\ running /\ ticks < MaxHoursPasses
    /\ is_trading_time(now)
    /\ \E d \in CallSeconds : now' = now + d
    /\ window' \in BotWindows
    /\ pc' = "trail"
    /\ obs' = [op |-> "get_market_data", mutation |-> FALSE, time |-> now']
    /\ hist' = [checked |-> now]
    /\ UNCHANGED <<bot, venueVars, ticks, running, last_signal_time, max_drawdown_reached>>

\* risk_manager.update_trailing_stops()
HoursTrailStep ==
    /\ pc = "trail"
    /\ \E accepted \in {{}, DOMAIN positions} :
          \E errs \in [TiedStops(positions, PriceCurrent(positions, price, price), XAUUSD)
                           -> RoundingErrors] :
          \E log \in {update_trailing_stops(positions,
                         Quotes(positions, PriceCurrent(positions, price, price), XAUUSD, errs),
                         accepted)} :
              /\ positions' = [t \in DOMAIN positions |->
                                 [positions[t] EXCEPT !.sl = log[t].sl_after]]
              /\ obs' = [op |-> "update_trailing_stops",
                         mutation |-> \E t \in DOMAIN log : log[t].sent, time |-> now]
    /\ \E d \in CallSeconds : now' = now + d
    /\ pc' = "exit"
    /\ UNCHANGED <<bot, nextTicket, account, price, ticks, running, window,
                   last_signal_time, max_drawdown_reached, hist>>

\* check_exit_signals(market_data)
HoursExitStep ==
    /\ pc = "exit"
    /\ \E venue_done \in BOOLEAN :
          LET asked == ExitTickets(window, positions)
              closed == IF venue_done THEN asked ELSE {}
          IN  /\ positions' = [t \in DOMAIN positions \ closed |-> positions[t]]
              /\ obs' = [op |-> "check_exit_signals", mutation |-> asked # {},
                         time |-> now]
    /\ \E d \in CallSeconds : now' = now + d
    /\ pc' = "entry"
    /\ UNCHANGED <<bot, nextTicket, account, price, ticks, running, window,
                   last_signal_time, max_drawdown_reached, hist>>

\* check_entry_signals(market_data)
HoursEntryStep ==
    /\ pc = "entry"
    /\ \E venue_done \in BOOLEAN :
          \E errs \in EntryRoundings("ema_crossover", window,
                                       last_signal_time["ema_crossover"], now, account,
                                       XAUUSD, price, WindowATR) :
          \E r \in {check_entry_signals("ema_crossover", window, account,
                                       [list |-> positions], [list |-> positions],
                                       max_drawdown_reached,
                                       last_signal_time["ema_crossover"],
                                       now, XAUUSD, price, WindowATR, venue_done,
                                       errs)} :
              /\ max_drawdown_reached' = r.flag
              /\ IF r.outcome = "accepted"
                 THEN /\ positions' = [t \in DOMAIN positions \cup {nextTicket} |->
                                         IF t = nextTicket
                                         THEN Position(r.order.type, r.order.sl, r.order.tp,
                                                       r.order.volume, r.order.comment)
                                         ELSE positions[t]]
                      /\ nextTicket' = nextTicket + 1
                      /\ last_signal_time' = [last_signal_time EXCEPT
                                                !["ema_crossover"] = update_signal_history(now)]
                 ELSE UNCHANGED <<positions, nextTicket, last_signal_time>>
              /\ obs' = [op |-> "check_entry_signals",
                         mutation |-> r.outcome \in {"accepted", "rejected"},
                         time |-> now]
    /\ pc' = "sleep"
    /\ UNCHANGED <<bot, account, price, clockVars, running, window, hist>>

\* log_status(); time.sleep(update_interval)
HoursSleep ==
    /\ pc = "sleep"
    /\ now' = now + update_interval
    /\ ticks' = ticks + 1
    /\ pc' = "loop"
    /\ UNCHANGED <<bot, venueVars, running, window, last_signal_time,
                   max_drawdown_reached, obs, hist>>

HoursNext ==
    \/ HoursSignalHandler \/ HoursLoopExit \/ HoursClosed \/ HoursMarketData
    \/ HoursTrailStep \/ HoursExitStep \/ HoursEntryStep \/ HoursSleep

SpecHours == HoursInit /\ [][HoursNext]_vars

\* C36: whenever the single-strategy loop sends the venue an entry order, a
\* close or a stop modification, the clock is inside the trading window
\* (a day of trading_days, an hour from trading_start_hour to
\* trading_end_hour)
C36_NoVenueMutationOutsideWindow ==
    obs.mutation => is_trading_time(obs.time)

\* what the loop does keep: the pass that sends the venue anything asked
\* is_trading_time() at its top and was answered True, and a pass answered
\* False only waits
PassCheckedInsideWindow ==
    /\ obs.mutation => is_trading_time(hist.checked)
    /\ pc \in {"trail", "exit", "entry", "sleep"} => is_trading_time(hist.checked)

-----------------------------------------------------------------------------
(* MeanReversionStrategy (strategies/mean_reversion.py): the signal and    *)
(* the stop and target it answers for it, over the closing prices of the   *)
(* window.                                                                 *)

MaxSideBars == 34

\* default parameters of MeanReversionStrategy
ma_period == 10
rsi_period == 7
rsi_oversold == 40
rsi_overbought == 60
\* parameters['signal_cooldown'], seconds
default_signal_cooldown == 3
mean_reversion_minimum_bars == 30
\* std_multiplier 1.0, as a fraction
std_multiplier == <<1, 1>>
\* the factors of get_stop_loss: ma * 0.998 (BUY), ma * 1.002 (SELL)
stop_below_ma == <<998, 1000>>
stop_above_ma == <<1002, 1000>>

RECURSIVE SumOfCloses(_, _, _)
\* closes[from] + ... + closes[to]
SumOfCloses(closes, from, to) ==
    IF from > to THEN Zero ELSE RAdd(closes[from], SumOfCloses(closes, from + 1, to))

\* data['close'].rolling(window = n).mean() at the last bar
rolling_mean(closes, n) ==
    RDiv(SumOfCloses(closes, Len(closes) - n + 1, Len(closes)), RR(n))

RECURSIVE SumOfSquares(_, _, _, _)
SumOfSquares(closes, mean, from, to) ==
    IF from > to THEN Zero
    ELSE RAdd(RMul(RSub(closes[from], mean), RSub(closes[from], mean)),
              SumOfSquares(closes, mean, from + 1, to))

\* the square of data['close'].rolling(window = n).std() at the last bar
\* (the sample deviation, n - 1 in the divisor)
rolling_variance(closes, n) ==
    RDiv(SumOfSquares(closes, rolling_mean(closes, n), Len(closes) - n + 1, Len(closes)),
         RR(n - 1))

RECURSIVE SumOfMoves(_, _, _, _)
\* the rises (up = TRUE) or the falls of closes[from-1 .. to], added up
SumOfMoves(closes, up, from, to) ==
    IF from > to THEN Zero
    ELSE LET delta == RSub(closes[from], closes[from - 1])
             part  == IF up THEN RMax(delta, Zero) ELSE RMax(RSub(Zero, delta), Zero)
         IN  RAdd(part, SumOfMoves(closes, up, from + 1, to))

\* the gains and the losses _calculate_rsi averages at the last bar
rsi_gain(closes) == SumOfMoves(closes, TRUE, Len(closes) - rsi_period + 1, Len(closes))
rsi_loss(closes) == SumOfMoves(closes, FALSE, Len(closes) - rsi_period + 1, Len(closes))

\* the RSI at the last bar lies on the level: the double computed for it,
\* 100 - 100 / (1 + gain / loss), lies on the level or off it to a side
rsi_on_level(closes, level) ==
    /\ ~(rsi_gain(closes) = Zero /\ rsi_loss(closes) = Zero)
    /\ RMul(RR(100), rsi_gain(closes))
          = RMul(RR(level), RAdd(rsi_gain(closes), rsi_loss(closes)))

\* _calculate_rsi at the last bar, against a level: "below", "above", "at",
\* or "nan" when the closes of the period neither rose nor fell; err: the
\* rounding error of the double computed for the RSI
rsi_against(closes, level, err) ==
    LET gain == rsi_gain(closes)
        loss == rsi_loss(closes)
        \* rsi = 100 - 100 / (1 + gain / loss) = 100 * gain / (gain + loss)
        lhs  == RMul(RR(100), gain)
        rhs  == RMul(RR(level), RAdd(gain, loss))
    IN  CASE loss = Zero /\ gain = Zero -> "nan"
          [] FLt(lhs, rhs, err)  -> "below"
          [] FLt(rhs, lhs, -err) -> "above"
          [] OTHER -> "at"

\* the square of the band width and of the distance of the last close from
\* the moving average
band_square(closes) ==
    RMul(rolling_variance(closes, ma_period), RMul(std_multiplier, std_multiplier))
distance_square(closes) ==
    LET dev == RSub(closes[Len(closes)], rolling_mean(closes, ma_period))
    IN  RMul(dev, dev)

\* the deciding rounding errors of get_signal on the closes: of the band
\* the close is compared with (errs.band) and of the RSI (errs.rsi)
SignalRoundings(closes) ==
    IF Len(closes) < mean_reversion_minimum_bars THEN {[band |-> 0, rsi |-> 0]}
    ELSE [band : Deciding(band_square(closes) = distance_square(closes)
                             /\ distance_square(closes) # Zero),
          rsi  : Deciding(rsi_on_level(closes, rsi_oversold)
                             \/ rsi_on_level(closes, rsi_overbought))]

\* MeanReversionStrategy.get_signal(data) at current_time, the instance
\* having answered its last signal at last_signal_time_ (0: none yet): the
\* signal, and self.last_signal_time after the call
MeanReversion_get_signal(closes, last_signal_time_, current_time, errs) ==
    IF Len(closes) < mean_reversion_minimum_bars
    THEN [signal |-> "None", last_signal_time |-> last_signal_time_]
    ELSE IF current_time - last_signal_time_ < default_signal_cooldown
    THEN [signal |-> "None", last_signal_time |-> last_signal_time_]
    ELSE
    LET ma    == rolling_mean(closes, ma_period)
        close == closes[Len(closes)]
        dev   == RSub(close, ma)
        \* |close - ma| > std * std_multiplier
        outside == FLt(band_square(closes), distance_square(closes), errs.band)
        signal  == CASE RLt(dev, Zero) /\ outside
                          /\ rsi_against(closes, rsi_oversold, errs.rsi) = "below"
                           -> "BUY"
                     [] RLt(Zero, dev) /\ outside
                          /\ rsi_against(closes, rsi_overbought, errs.rsi) = "above"
                           -> "SELL"
                     [] OTHER -> "None"
    IN  [signal |-> signal,
         last_signal_time |-> IF signal = "None" THEN last_signal_time_
                              ELSE current_time]

\* MeanReversionStrategy.get_stop_loss
MeanReversion_get_stop_loss(closes, signal, entry_price) ==
    RMul(rolling_mean(closes, ma_period),
         IF signal = "BUY" THEN stop_below_ma ELSE stop_above_ma)

\* MeanReversionStrategy.get_take_profit
MeanReversion_get_take_profit(closes, signal, entry_price) ==
    rolling_mean(closes, ma_period)

\* the closes of a quiet window, one bar short of the minimum
QuietCloses == [i \in 1..(mean_reversion_minimum_bars - 1) |-> RR(2000)]
\* the move of the close from one bar to the next
CloseMoves == {-5, -1, 0, 1, 5}

SidesInit ==
    /\ positions = <<>>
    /\ nextTicket = 1
    /\ account = AccountInfo(GateBalance, GateBalance, 0, GateBalance, 100, TRUE)
    /\ price = RR(2000)
    /\ now = StartTime
    /\ ticks = 0
    /\ bot = "none"
    /\ running = FALSE
    /\ pc = "off"
    /\ window = [closes |-> QuietCloses]
    /\ last_signal_time = [n \in {"mean_reversion"} |-> 0]
    /\ max_drawdown_reached = FALSE
    /\ obs = [op |-> "none"]
    /\ hist = [asked |-> FALSE]

\* a bar closes; the next call comes at once or a cooldown later
SidesNewBar ==
    /\ Len(window.closes) < MaxSideBars
    /\ \E move \in CloseMoves :
          window' = [closes |-> Append(window.closes,
                                       RAdd(window.closes[Len(window.closes)], RR(move)))]
    /\ \E d \in {0, default_signal_cooldown} : now' = now + d
    /\ obs' = [op |-> "none"]
    /\ hist' = [asked |-> FALSE]
    /\ UNCHANGED <<venueVars, ticks, bot, running, pc, last_signal_time,
                   max_drawdown_reached>>

\* get_signal on the window and, for a signal, get_stop_loss and
\* get_take_profit with the last close as the entry price
SidesOfSignal ==
    /\ ~hist.asked
    /\ \E errs \in SignalRoundings(window.closes) :
       \E r \in {MeanReversion_get_signal(window.closes,
                                          last_signal_time["mean_reversion"], now, errs)} :
          LET entry  == window.closes[Len(window.closes)]
              signal == r.signal
          IN  /\ obs' = IF signal = "None"
                        THEN [op |-> "get_signal", signal |-> signal,
                              since_last |-> now - last_signal_time["mean_reversion"]]
                        ELSE [op |-> "get_signal", signal |-> signal, entry |-> entry,
                              since_last |-> now - last_signal_time["mean_reversion"],
                              sl |-> MeanReversion_get_stop_loss(window.closes, signal,
                                                                 entry),
                              tp |-> MeanReversion_get_take_profit(window.closes, signal,
                                                                   entry)]
              /\ last_signal_time' = [last_signal_time EXCEPT
                                        !["mean_reversion"] = r.last_signal_time]
    /\ hist' = [asked |-> TRUE]
    /\ UNCHANGED <<venueVars, clockVars, loopVars, max_drawdown_reached>>

SidesNext == SidesNewBar \/ SidesOfSignal

SpecSides == SidesInit /\ [][SidesNext]_vars

\* C37: the stop and the target a strategy answers for a signal it emitted
\* lie on the two sides of the entry price: stop < entry < target for BUY,
\* target < entry < stop for SELL
C37_StopAndTargetStraddleEntry ==
    (obs.op = "get_signal" /\ obs.signal # "None") =>
        IF obs.signal = "BUY"
        THEN RLt(obs.sl, obs.entry) /\ RLt(obs.entry, obs.tp)
        ELSE RLt(obs.tp, obs.entry) /\ RLt(obs.entry, obs.sl)

\* what the answers do keep: the target lies beyond the entry price
TargetBeyondEntry ==
    (obs.op = "get_signal" /\ obs.signal # "None") =>
        IF obs.signal = "BUY" THEN RLt(obs.entry, obs.tp) ELSE RLt(obs.tp, obs.entry)

-----------------------------------------------------------------------------
(* The schedulers that validate a trade before they place it:              *)
(* TradingBot.check_entry_signals (main.py),                               *)
(* HighFrequencyTradingBot.execute_hft_trade (hft_main.py) and             *)
(* run_hft_mode (hft_debug.py).  The clock of the two HFT loops is kept    *)
(* in seconds as a fraction.                                               *)

MaxAdjustedPasses == 3

\* the parameters of the HFTEMAScalper of hft_main.py: the defaults of the
\* class under STRATEGY_SETTINGS['ema_crossover'] of config_hft, which sets
\* none of fast_ema, slow_ema and momentum_threshold
HftParameters ==
    [fast_ema |-> 3, slow_ema |-> 8, atr_period |-> 10,
     min_atr_filter |-> <<1, 100000>>, signal_cooldown |-> 0,
     momentum_threshold |-> <<1, 10000>>]

\* STRATEGY_SETTINGS['update_interval'] of config_hft and the interval
\* run_hft_mode sets itself: 50 ms
hft_update_interval == <<1, 20>>

\* the seconds of a bar of TRADING_SETTINGS['timeframe'] of config_hft, M1
BarSeconds == 60

\* data['close']
Closes(data) == [i \in DOMAIN data |-> data[i].close]

\* HFTEMAScalper.get_signal(data): the answer and last_signal_time after
\* the call; bar_time: data.index[-1].timestamp(); a NaN ATR passes the
\* ATR filter, the comparison with NaN being False
HFTEMAScalper_get_signal(data, bar_time, last, p) ==
    LET n            == Len(data)
        none         == [signal |-> "None", last_signal_time |-> last]
        answer(side) == [signal |-> side, last_signal_time |-> bar_time]
    IN  IF n < Max2(20, p.slow_ema * 2) THEN none
        ELSE IF bar_time - last < p.signal_cooldown THEN none
        ELSE
        LET ema_fast == _calculate_ema(Closes(data), p.fast_ema)
            ema_slow == _calculate_ema(Closes(data), p.slow_ema)
            atr      == _calculate_atr(data, p.atr_period)
            current  == data[n].close
            previous == data[n - 1].close
        IN  IF ~atr.isna /\ RLt(atr.value, p.min_atr_filter) THEN none
            ELSE IF RLt(RAbs(RSub(current, previous)), p.momentum_threshold) THEN none
            ELSE IF RLe(ema_fast[n - 1], ema_slow[n - 1]) /\ RLt(ema_slow[n], ema_fast[n])
                 THEN (IF RLt(previous, current) THEN answer("BUY") ELSE none)
            ELSE IF RLe(ema_slow[n - 1], ema_fast[n - 1]) /\ RLt(ema_fast[n], ema_slow[n])
                 THEN (IF RLt(current, previous) THEN answer("SELL") ELSE none)
            ELSE none

\* the bars the venue holds for the symbol when hft_main.py starts: quiet
\* ones, one fewer than the strategy asks for
HftStartBars ==
    [i \in 1..(Max2(20, HftParameters.slow_ema * 2) - 1) |->
        Bar(BaseClose, BaseClose, BaseClose)]

\* the units a bar closes off the close before it
BarMoves == {-1, 0, 1}

\* the bar that follows a close of previous and ends move units off it
NextBar(previous, move) ==
    LET close == RAdd(previous, RR(move))
    IN  Bar(RMax(previous, close), RMin(previous, close), close)

\* a stop or target as validate_trade and the order take it: 0 for None
PriceOrZero(answer) == IF answer = NoInfo THEN Zero ELSE answer.value

\* execute_hft_trade(signal, data, symbol): how far it got, the volume it
\* had validated, what validate_trade answered and the order it placed;
\* errs: the rounding errors of the stops (errs.stop, errs.target) and of
\* the validation (errs.validation)
execute_hft_trade(signal, data, price_info, info, positions_list, positions_again, flag, symbol_info, venue_done, errs) ==
    LET entry_price == IF signal = "BUY" THEN price_info.ask ELSE price_info.bid
        gate        == check_trading_allowed(info, positions_list, flag)
        regate      == check_trading_allowed(info, positions_again, gate.flag)
        stop_loss   == PriceOrZero(stop_loss_of("hft_main", data, signal, entry_price,
                                                errs.stop))
        take_profit == PriceOrZero(take_profit_of("hft_main", data, signal, entry_price,
                                                  errs.target))
        volume      == lot_size
        validation  == validate_trade(volume, entry_price, stop_loss, take_profit,
                                      regate.allowed, info, symbol_info, errs.validation)
        order       == [type |-> signal, volume |-> volume,
                        sl |-> stop_loss, tp |-> take_profit,
                        comment |-> <<"HFT", "-", signal>>]
        outcome     == IF price_info = NoInfo THEN "no_price"
                       ELSE IF ~gate.allowed THEN "not_allowed"
                       ELSE IF ~validation.valid THEN "invalid"
                       ELSE IF venue_done /\ VenueTakes(order.volume, symbol_info) THEN "accepted"
                       ELSE "rejected"
    IN  [outcome |-> outcome,
         flag    |-> IF price_info = NoInfo THEN flag
                     ELSE IF ~gate.allowed THEN gate.flag
                     ELSE regate.flag,
         volume  |-> volume,
         adjusted_volume |-> IF outcome \in {"accepted", "rejected"}
                             THEN validation.adjusted_volume ELSE Zero,
         order   |-> IF outcome \in {"accepted", "rejected"} THEN order ELSE NoInfo]

\* the body of a pass of run_hft_mode below its test of the data: how far
\* it got, the volume it had validated, what validate_trade answered and
\* the order it placed.  The stops are asked for before the gate, the
\* volume is the computed size unless that is 0, and nothing calls
\* update_signal_history
run_hft_mode(w, last, wall_time, price_info, info, positions_list, positions_again, flag, symbol_info, atr, venue_done, errs) ==
    LET signal      == EMACrossover_get_signal(w, last, wall_time).signal
        entry_price == IF signal = "BUY" THEN price_info.ask ELSE price_info.bid
        stop_loss   == get_stop_loss(signal, entry_price, atr, errs.stop)
        take_profit == get_take_profit(signal, entry_price, atr, errs.target)
        gate        == check_trading_allowed(info, positions_list, flag)
        regate      == check_trading_allowed(info, positions_again, gate.flag)
        calculated  == calculate_position_size(FALSE, entry_price, stop_loss, info,
                                               symbol_info, errs.size)
        volume      == IF stop_loss # Zero /\ calculated # Zero THEN calculated
                       ELSE lot_size
        validation  == validate_trade(volume, entry_price, stop_loss, take_profit,
                                      regate.allowed, info, symbol_info, errs.validation)
        order       == [type |-> signal, volume |-> volume,
                        sl |-> stop_loss, tp |-> take_profit,
                        comment |-> <<"HFT", "-", StrategyDisplayName("ema_crossover"),
                                      "-", signal>>]
        outcome     == IF signal = "None" THEN "no_signal"
                       ELSE IF price_info = NoInfo THEN "no_price"
                       ELSE IF ~gate.allowed THEN "not_allowed"
                       ELSE IF ~validation.valid THEN "invalid"
                       ELSE IF venue_done /\ VenueTakes(order.volume, symbol_info) THEN "accepted"
                       ELSE "rejected"
    IN  [outcome |-> outcome,
         flag    |-> IF outcome \in {"no_signal", "no_price"} THEN flag
                     ELSE IF ~gate.allowed THEN gate.flag
                     ELSE regate.flag,
         volume  |-> IF outcome \in {"invalid", "accepted", "rejected"} THEN volume
                     ELSE Zero,
         adjusted_volume |-> IF outcome \in {"accepted", "rejected"}
                             THEN validation.adjusted_volume ELSE Zero,
         order   |-> IF outcome \in {"accepted", "rejected"} THEN order ELSE NoInfo]

\* the deciding rounding errors of one call of execute_hft_trade
HftRoundings(signal, data, info, symbol_info, entry_price) ==
    UNION { [stop : {s}, target : {t},
             validation : ValidationRoundings(
                              lot_size, entry_price,
                              PriceOrZero(stop_loss_of("hft_main", data, signal,
                                                       entry_price, s)),
                              PriceOrZero(take_profit_of("hft_main", data, signal,
                                                         entry_price, t)),
                              info, symbol_info)] :
            s \in StopRoundings("hft_main", data, signal, entry_price),
            t \in TargetRoundings("hft_main", data, signal, entry_price) }

\* the deciding rounding errors of one pass of run_hft_mode
DebugRoundings(signal, info, symbol_info, entry_price, atr) ==
    IF signal = "None"
    THEN {[stop |-> 0, target |-> 0, size |-> 0, validation |-> ExactValidation]}
    ELSE
    LET stop_loss(s)   == get_stop_loss(signal, entry_price, atr, s)
        take_profit(t) == get_take_profit(signal, entry_price, atr, t)
        calculated(s, e) == calculate_position_size(FALSE, entry_price, stop_loss(s),
                                                    info, symbol_info, e)
        volume(s, e)   == IF stop_loss(s) # Zero /\ calculated(s, e) # Zero
                          THEN calculated(s, e) ELSE lot_size
        sized(s, t)    ==
            UNION { [stop : {s}, target : {t}, size : {e},
                     validation : ValidationRoundings(volume(s, e), entry_price,
                                                      stop_loss(s), take_profit(t),
                                                      info, symbol_info)] :
                    e \in SizeRoundings(FALSE, entry_price, stop_loss(s), info,
                                        symbol_info) }
    IN  UNION { sized(s, t) : s \in StopLossRoundings(signal, entry_price, atr),
                              t \in TakeProfitRoundings(signal, entry_price, atr) }

\* the volume check_entry_signals has validated and what validate_trade
\* answers for it
ValidationOfEntry(signal, info, positions_again, flag, symbol_info, entry_price, atr, errs) ==
    LET stop_loss   == get_stop_loss(signal, entry_price, atr, errs.stop)
        take_profit == get_take_profit(signal, entry_price, atr, errs.target)
        volume      == IF stop_loss # Zero
                       THEN calculate_position_size(FALSE, entry_price, stop_loss, info,
                                                    symbol_info, errs.size)
                       ELSE lot_size
        regate      == check_trading_allowed(info, positions_again, flag)
    IN  [volume |-> volume,
         validation |-> validate_trade(volume, entry_price, stop_loss, take_profit,
                                       regate.allowed, info, symbol_info, errs.validation)]

AdjustedSchedulers == {"single", "hft", "hft_debug"}
AdjustedSymbols == {XAUUSD, WholeLots}

\* what get_current_price and get_positions answer: the data or None
PriceAnswers(quote) == {[ask |-> quote, bid |-> quote], NoInfo}
ListingAnswers(pos) == {[list |-> pos], NoInfo}

AdjustedInit ==
    /\ positions = <<>>
    /\ nextTicket = 1
    /\ account \in BotAccounts
    /\ price = RR(2000)
    /\ bot \in AdjustedSchedulers
    /\ now = IF bot = "single" THEN StartTime ELSE RR(StartTime)
    /\ ticks = 0
    /\ running = TRUE
    /\ pc = "loop"
    /\ window = IF bot = "hft" THEN [bars |-> HftStartBars, bar_time |-> StartTime]
                ELSE Window(StartTime, "flat")
    /\ last_signal_time = [n \in {"ema_crossover", "hft_ema"} |-> InitialSignalTime(n)]
    /\ max_drawdown_reached = FALSE
    /\ obs = [op |-> "none"]
    /\ hist \in {[symbol_info |-> s] : s \in AdjustedSymbols}

\* get_market_data() of a pass of TradingBot; the price has moved
AdjustedMarketData ==
    /\ pc = "loop" /\ bot = "single" /\ ticks < MaxAdjustedPasses
    /\ \E cross \in {"up", "down", "flat"} : window' = Window(now, cross)
    /\ price' \in {RR(2000), RR(2001)}
    /\ pc' = "trail"
    /\ obs' = [op |-> "none"]
    /\ UNCHANGED <<bot, positions, nextTicket, account, clockVars, running,
                   last_signal_time, max_drawdown_reached, hist>>

\* get_market_data() of a pass of run_hft_loop and the test that follows
\* it: the venue holds the bars of the pass before or one bar more, the
\* price has moved, and the call answers the bars or None; on None and on
\* fewer bars than get_minimum_bars() the pass sleeps and starts over
AdjustedHftMarketData ==
    /\ pc = "loop" /\ bot = "hft" /\ ticks < MaxAdjustedPasses
    /\ \E closed \in BOOLEAN, move \in BarMoves :
          window' = IF closed
                    THEN [bars     |-> Append(window.bars,
                                              NextBar(window.bars[Len(window.bars)].close,
                                                      move)),
                          bar_time |-> window.bar_time + BarSeconds]
                    ELSE window
    /\ price' \in {RR(2000), RR(2001)}
    /\ \E answered \in BOOLEAN :
          pc' = IF answered /\ Len(window'.bars) >= Max2(20, HftParameters.slow_ema * 2)
                THEN "entry" ELSE "pause"
    /\ obs' = [op |-> "none"]
    /\ UNCHANGED <<bot, positions, nextTicket, account, clockVars, running,
                   last_signal_time, max_drawdown_reached, hist>>

\* get_market_data() of a pass of run_hft_mode and the test that follows it
AdjustedDebugMarketData ==
    /\ pc = "loop" /\ bot = "hft_debug" /\ ticks < MaxAdjustedPasses
    /\ \E cross \in {"up", "down", "flat"} : window' = Window(now, cross)
    /\ price' \in {RR(2000), RR(2001)}
    /\ \E answered \in BOOLEAN : pc' = IF answered THEN "entry" ELSE "pause"
    /\ obs' = [op |-> "none"]
    /\ UNCHANGED <<bot, positions, nextTicket, account, clockVars, running,
                   last_signal_time, max_drawdown_reached, hist>>

\* risk_manager.update_trailing_stops() of the pass of TradingBot
AdjustedTrailStep ==
    /\ pc = "trail"
    /\ \E accepted \in {{}, DOMAIN positions} :
          \E errs \in [TiedStops(positions, PriceCurrent(positions, price, price),
                                 hist.symbol_info) -> RoundingErrors] :
          \E log \in {update_trailing_stops(positions,
                         Quotes(positions, PriceCurrent(positions, price, price),
                                hist.symbol_info, errs),
                         accepted)} :
              positions' = [t \in DOMAIN positions |->
                              [positions[t] EXCEPT !.sl = log[t].sl_after]]
    /\ pc' = "exit"
    /\ UNCHANGED <<bot, nextTicket, account, price, clockVars, running, window,
                   last_signal_time, max_drawdown_reached, obs, hist>>

\* check_exit_signals(market_data) of the pass of TradingBot
AdjustedExitStep ==
    /\ pc = "exit"
    /\ \E venue_done \in BOOLEAN :
          LET closed == IF venue_done THEN ExitTickets(window, positions) ELSE {}
          IN  positions' = [t \in DOMAIN positions \ closed |-> positions[t]]
    /\ pc' = "entry"
    /\ UNCHANGED <<bot, nextTicket, account, price, clockVars, running, window,
                   last_signal_time, max_drawdown_reached, obs, hist>>

\* check_entry_signals(market_data) of TradingBot
AdjustedEntryStep ==
    /\ pc = "entry" /\ bot = "single"
    /\ \E venue_done \in BOOLEAN :
          \E errs \in EntryRoundings("ema_crossover", window,
                                       last_signal_time["ema_crossover"], now, account,
                                       hist.symbol_info, price, WindowATR) :
          \E r \in {check_entry_signals("ema_crossover", window, account,
                                       [list |-> positions], [list |-> positions],
                                       max_drawdown_reached,
                                       last_signal_time["ema_crossover"],
                                       now, hist.symbol_info, price, WindowATR, venue_done,
                                       errs)} :
          \E v \in {ValidationOfEntry(CrossSignal(window), account, [list |-> positions],
                                      r.flag, hist.symbol_info, price, WindowATR, errs)} :
              /\ max_drawdown_reached' = r.flag
              /\ IF r.outcome = "accepted"
                 THEN /\ positions' = [t \in DOMAIN positions \cup {nextTicket} |->
                                         IF t = nextTicket
                                         THEN Position(r.order.type, r.order.sl, r.order.tp,
                                                       r.order.volume, r.order.comment)
                                         ELSE positions[t]]
                      /\ nextTicket' = nextTicket + 1
                      /\ last_signal_time' = [last_signal_time EXCEPT
                                                !["ema_crossover"] = update_signal_history(now)]
                 ELSE UNCHANGED <<positions, nextTicket, last_signal_time>>
              /\ obs' = [op |-> "entry", outcome |-> r.outcome, order |-> r.order,
                         volume |-> v.volume,
                         adjusted_volume |-> v.validation.adjusted_volume]
    /\ pc' = "sleep"
    /\ UNCHANGED <<bot, account, price, clockVars, running, window, hist>>

\* run_hft_loop below its test of the data: get_signal on the bars of the
\* pass and, for a signal, execute_hft_trade on the same bars
AdjustedHftStep ==
    /\ pc = "entry" /\ bot = "hft"
    /\ \E venue_done \in BOOLEAN, price_info \in PriceAnswers(price),
          listing \in ListingAnswers(positions), relisting \in ListingAnswers(positions) :
          \E s \in {HFTEMAScalper_get_signal(window.bars, window.bar_time,
                                             last_signal_time["hft_ema"], HftParameters)} :
              /\ last_signal_time' = [last_signal_time EXCEPT !["hft_ema"] = s.last_signal_time]
              /\ IF s.signal = "None"
                 THEN /\ obs' = [op |-> "entry", outcome |-> "no_signal", order |-> NoInfo,
                                 volume |-> Zero, adjusted_volume |-> Zero]
                      /\ UNCHANGED <<positions, nextTicket, max_drawdown_reached>>
                 ELSE \E errs \in HftRoundings(s.signal, window.bars, account,
                                                 hist.symbol_info, price) :
                      \E r \in {execute_hft_trade(s.signal, window.bars, price_info, account,
                                                  listing, relisting,
                                                  max_drawdown_reached, hist.symbol_info,
                                                  venue_done, errs)} :
                      /\ max_drawdown_reached' = r.flag
                      /\ IF r.outcome = "accepted"
                         THEN /\ positions' = [t \in DOMAIN positions \cup {nextTicket} |->
                                                 IF t = nextTicket
                                                 THEN Position(r.order.type, r.order.sl,
                                                               r.order.tp, r.order.volume,
                                                               r.order.comment)
                                                 ELSE positions[t]]
                              /\ nextTicket' = nextTicket + 1
                         ELSE UNCHANGED <<positions, nextTicket>>
                      /\ obs' = [op |-> "entry", outcome |-> r.outcome, order |-> r.order,
                                 volume |-> r.volume, adjusted_volume |-> r.adjusted_volume]
    /\ pc' = "sleep"
    /\ UNCHANGED <<bot, account, price, clockVars, running, window, hist>>

\* a pass of run_hft_mode below its test of the data; where the code says
\* continue (no price, trading not allowed, order not valid) the next pass
\* starts without a sleep
AdjustedDebugStep ==
    /\ pc = "entry" /\ bot = "hft_debug"
    /\ \E venue_done \in BOOLEAN, price_info \in PriceAnswers(price),
          listing \in ListingAnswers(positions), relisting \in ListingAnswers(positions) :
          \E errs \in DebugRoundings(EMACrossover_get_signal(
                                         window, last_signal_time["ema_crossover"],
                                         now).signal,
                                     account, hist.symbol_info, price, WindowATR) :
          \E r \in {run_hft_mode(window, last_signal_time["ema_crossover"], now,
                                 price_info, account, listing, relisting,
                                 max_drawdown_reached, hist.symbol_info, WindowATR,
                                 venue_done, errs)} :
              /\ max_drawdown_reached' = r.flag
              /\ IF r.outcome = "accepted"
                 THEN /\ positions' = [t \in DOMAIN positions \cup {nextTicket} |->
                                         IF t = nextTicket
                                         THEN Position(r.order.type, r.order.sl, r.order.tp,
                                                       r.order.volume, r.order.comment)
                                         ELSE positions[t]]
                      /\ nextTicket' = nextTicket + 1
                 ELSE UNCHANGED <<positions, nextTicket>>
              /\ obs' = [op |-> "entry", outcome |-> r.outcome, order |-> r.order,
                         volume |-> r.volume, adjusted_volume |-> r.adjusted_volume]
              /\ IF r.outcome \in {"no_price", "not_allowed", "invalid"}
                 THEN pc' = "loop" /\ ticks' = ticks + 1
                 ELSE pc' = "sleep" /\ ticks' = ticks
    /\ UNCHANGED <<bot, account, price, now, running, window, last_signal_time, hist>>

\* the sleep that ends the pass of TradingBot
AdjustedSleep ==
    /\ pc = "sleep" /\ bot = "single"
    /\ \E d \in {update_interval, min_interval_seconds} : now' = now + d
    /\ ticks' = ticks + 1
    /\ pc' = "loop"
    /\ UNCHANGED <<bot, venueVars, running, window, last_signal_time,
                   max_drawdown_reached, obs, hist>>

\* the sleep of a pass of the two HFT loops: update_interval after a fetch
\* that gave too little, and max(0, update_interval - loop_time) at the end
\* of a pass, which then has taken update_interval or, its work being
\* slower than that, longer
AdjustedHftSleep ==
    /\ pc \in {"pause", "sleep"} /\ bot \in {"hft", "hft_debug"}
    /\ \E passed \in {hft_update_interval, RMul(RR(2), hft_update_interval)} :
          now' = RAdd(now, passed)
    /\ ticks' = ticks + 1
    /\ pc' = "loop"
    /\ UNCHANGED <<bot, venueVars, running, window, last_signal_time,
                   max_drawdown_reached, obs, hist>>

AdjustedNext ==
    \/ AdjustedMarketData \/ AdjustedHftMarketData \/ AdjustedDebugMarketData
    \/ AdjustedTrailStep \/ AdjustedExitStep
    \/ AdjustedEntryStep \/ AdjustedHftStep \/ AdjustedDebugStep
    \/ AdjustedSleep \/ AdjustedHftSleep

SpecAdjusted == AdjustedInit /\ [][AdjustedNext]_vars

\* C38: an order that the single-strategy or the HFT scheduler places after
\* validate_trade carries the adjusted_volume of the validation result
C38_OrderCarriesAdjustedVolume ==
    (obs.op = "entry" /\ obs.order # NoInfo) =>
        obs.order.volume = obs.adjusted_volume

\* what does hold: the single-strategy scheduler places the adjusted
\* volume, the HFT loops the volume they handed to validate_trade, which in
\* hft_main.py is the configured lot size
SingleAdjustedHftAsValidated ==
    (obs.op = "entry" /\ obs.order # NoInfo) =>
        CASE bot = "single" -> obs.order.volume = obs.adjusted_volume
          [] bot = "hft"    -> obs.order.volume = obs.volume /\ obs.volume = lot_size
          [] OTHER          -> obs.order.volume = obs.volume

====
